---- MODULE Spec2Model ----
(***************************************************************************)
(* Model of the lore-ridekick-research extension (src/src/types.ts):      *)
(* the tool handlers ridekick_speakers, ridekick_hypothesis,              *)
(* ridekick_pain_points and ridekick_analyze, each as a small state       *)
(* machine whose steps are the handler's validation, its await of         *)
(* getAllSources, its scan over the fetched records and its return.  The  *)
(* earlier build of the extension (src/unnamed/part_001) runs the same    *)
(* handlers over a getAllSources that calls a REST endpoint.              *)
(***************************************************************************)
EXTENDS Integers, Sequences, FiniteSets, TLC

VARIABLES
    tool,           \* which handler is running ("none" before the call)
    args,           \* the handler's args record
    context,        \* the ExtensionToolContext capabilities + environment
    pc,             \* position of the handler
    sources,        \* const sources = await getAllSources(...)
    idx,            \* number of sources the for-loop has processed
    keywords,       \* hypothesis handler: extracted keywords
    supporting,     \* hypothesis handler: supporting[]
    contradicting,  \* hypothesis handler: contradicting[]
    neutral,        \* hypothesis handler: neutral[]
    speakerMap,     \* speakers handler: Map in insertion order
    result,         \* the value the handler returned
    error,          \* message of the Error the handler threw
    queries,        \* the data-source requests made, in order
    apiCalls,       \* the fetch() calls to the completion API, in order
    proposals,      \* the context.propose calls made, in order
    analysis,       \* analyze handler: the text of the completion response
    painPointCounts,\* pain-points handler: Map in insertion order
    fetchStatus,    \* how the data source answered getAllSources
    response,       \* analyze handler: the completion API's response
    parked          \* the locals of a second invocation, suspended at an await

vars == <<tool, args, context, pc, sources, idx, keywords, supporting,
          contradicting, neutral, speakerMap, result, error, queries,
          apiCalls, proposals, analysis, painPointCounts, fetchStatus, response,
          parked>>

-----------------------------------------------------------------------------
(* JavaScript values: an optional (possibly undefined) value is a sequence *)
(* of length 0 or 1.                                                       *)

Absent == <<>>

Some(v) == <<v>>

\* JS truthiness of a string | undefined: undefined and '' are falsy.
Truthy(o) == o # Absent /\ o[1] # ""

\* `x || ''`
OrEmpty(o) == IF Truthy(o) THEN o[1] ELSE ""

Min(a, b) == IF a <= b THEN a ELSE b

Max(a, b) == IF a >= b THEN a ELSE b

\* Array.prototype.slice(0, n) and String.prototype.slice(0, n); a negative
\* n counts from the end
Slice(s, n) == SubSeq(s, 1, IF n < 0 THEN Max(Len(s) + n, 0) ELSE Min(n, Len(s)))

\* String.prototype.includes
Includes(s, k) == \E i \in 0..(Len(s) - Len(k)) : SubSeq(s, i + 1, i + Len(k)) = k

UpperChars == "ABCDEFGHIJKLMNOPQRSTUVWXYZ"

LowerChars == "abcdefghijklmnopqrstuvwxyz"

LowerChar(c) ==
    IF \E i \in 1..Len(UpperChars) : SubSeq(UpperChars, i, i) = c
    THEN LET i == CHOOSE j \in 1..Len(UpperChars) : SubSeq(UpperChars, j, j) = c
         IN  SubSeq(LowerChars, i, i)
    ELSE c

RECURSIVE toLowerCase(_)
\* String.prototype.toLowerCase, one half of the string after the other
toLowerCase(s) ==
    IF Len(s) <= 1 THEN LowerChar(s)
    ELSE toLowerCase(SubSeq(s, 1, Len(s) \div 2))
           \o toLowerCase(SubSeq(s, Len(s) \div 2 + 1, Len(s)))

\* the characters /\s/ matches, among those the inputs use
IsSpace(c) == c \in {" ", "\t", "\n"}

RECURSIVE SkipSpaces(_, _)
SkipSpaces(s, i) ==
    IF i <= Len(s) /\ IsSpace(SubSeq(s, i, i)) THEN SkipSpaces(s, i + 1) ELSE i

RECURSIVE SplitFrom(_, _, _, _)
SplitFrom(s, i, cur, acc) ==
    IF i > Len(s) THEN Append(acc, cur)
    ELSE LET c == SubSeq(s, i, i)
         IN  IF IsSpace(c)
             THEN SplitFrom(s, SkipSpaces(s, i), "", Append(acc, cur))
             ELSE SplitFrom(s, i + 1, cur \o c, acc)

\* String.prototype.split(/\s+/)
split(s) == SplitFrom(s, 1, "", <<>>)

\* words.filter(w => content.includes(w)).length
CountIncluded(ws, content) == Len(SelectSeq(ws, LAMBDA w : Includes(content, w)))

\* all sequences over S of length at most n
SeqsUpTo(S, n) == UNION {[1..k -> S] : k \in 0..n}

-----------------------------------------------------------------------------
(* Inputs.  A SourceResult carries the fields the handlers read; summary,  *)
(* content and participants may be undefined.                              *)

Src(title, summary, content, participants) ==
    [title |-> title, summary |-> summary, content |-> content,
     participants |-> participants]

\* records the hypothesis handler is run on
HypothesisCatalogue ==
    { Src("Interview 1", Some("The pricing is so confusing and frustrating"), Absent, Absent),
      Src("Interview 2", Some("I love the easy pricing"), Some("Good pricing"), Absent),
      Src("Interview 3", Absent, Some("The dealer pricing was confusing but good"), Absent),
      Src("Interview 4", Some(""), Some("Pricing is hard."), Absent) }

\* longest list of records context.query resolves with, per handler
MaxHypothesisSources == 6

ToolArgs(hypothesis, speaker, question, project, max_sources, save_as_document) ==
    [hypothesis |-> hypothesis, speaker |-> speaker, question |-> question,
     project |-> project, max_sources |-> max_sources,
     save_as_document |-> save_as_document, limit |-> Absent]

HypothesisArgs ==
    { ToolArgs(Absent, Absent, Absent, Absent, Absent, Absent),
      ToolArgs(Some(""), Absent, Absent, Some("acme"), Absent, Absent),
      ToolArgs(Some("Users find car pricing confusing"), Absent, Absent, Absent, Absent, Absent),
      ToolArgs(Some("the DEALER  experience"), Absent, Absent, Some("acme"), Absent, Absent),
      ToolArgs(Some("Users find that this is  a car"), Absent, Absent, Some(""), Absent, Absent) }

\* context.query / context.propose present, process.env.ANTHROPIC_API_KEY set;
\* rest: the build whose getAllSources calls the REST endpoint, supabase:
\* process.env.SUPABASE_URL and SUPABASE_ANON_KEY both set
Context(query, propose, apiKey) ==
    [query |-> query, propose |-> propose, apiKey |-> apiKey, rest |-> FALSE,
     supabase |-> FALSE]

RestContext(supabase) == [Context(FALSE, FALSE, FALSE) EXCEPT !.rest = TRUE, !.supabase = supabase]

\* the contexts the three record-scanning handlers are run in
ScanContexts ==
    { Context(TRUE, FALSE, FALSE), Context(FALSE, FALSE, FALSE),
      RestContext(TRUE), RestContext(FALSE) }

HypothesisContexts == ScanContexts

\* records the speakers handler is run on
SpeakerCatalogue ==
    { Src("A", Some("Pricing and trust"), Absent, Some(<<"Sam Lee", "Pat">>)),
      Src("B", Some("dealer stress"), Absent, Some(<<"Pat", "Pat">>)),
      Src("C", Some("a long time"), Absent, Absent),
      Src("D", Absent, Some("research"), Some(<<"Ann", "Dan", "Max", "Jan", "Hal", "Bo">>)),
      Src("E", Some("Research"), Absent,
          Some(<<"Kai", "Raj", "Tam", "Val", "Zac", "SAM LEE">>)) }

MaxSpeakerSources == 3

SpeakerFilters == {Absent, Some(""), Some("sam"), Some("A")}

SpeakerArgs == {ToolArgs(Absent, f, Absent, Absent, Absent, Absent) : f \in SpeakerFilters}

SpeakerContexts == ScanContexts

\* a sentence of more than 200 characters
Filler == "and then more forms and then more forms and again "

LongSentence == "The loan " \o Filler \o Filler \o Filler \o Filler

\* records the pain-points handler is run on
PainPointCatalogue ==
    { Src("A", Some("The pricing was confusing and I felt scammed"), Absent, Absent),
      Src("B", Absent, Some("The dealer was pushy"), Absent),
      Src("A", Some("Prices!! Hidden fees."), Some("No trust in the trade-in"), Absent),
      Src("C", Some("Nothing to report"), Absent, Absent),
      Src("D", Some(LongSentence \o "? The loan payment took hours to sort out."), Absent,
          Absent) }

MaxPainPointSources == 4

PainPointLimits == {Absent, Some(0), Some(1), Some(2), Some(-1)}

PainPointArgs ==
    { [ToolArgs(Absent, Absent, Absent, Absent, Absent, Absent) EXCEPT !.limit = l] :
        l \in PainPointLimits }

PainPointContexts == ScanContexts

\* records of one category: four titles, one of them on two records, one
\* record without a sentence long enough to quote, one with two of them
SampleCatalogue ==
    { Src("P1", Some("The price was never clear to me"), Absent, Absent),
      Src("P2", Some("Pricing changed at the counter"), Absent, Absent),
      Src("P3", Absent, Some("The prices were hidden"), Absent),
      Src("P4", Some("price"), Absent, Absent),
      Src("P1", Absent,
          Some("Nobody could explain the price. The price kept moving around"), Absent) }

MaxSampleSources == 4

SampleArgs ==
    { [ToolArgs(Absent, Absent, Absent, Absent, Absent, Absent) EXCEPT !.limit = l] :
        l \in {Absent, Some(1)} }

\* a host that answers queries
QueryContexts == {Context(TRUE, FALSE, FALSE)}

\* records that two invocations running at once are both given
InterleavedCatalogue ==
    { Src("A", Some("Pricing and trust"), Absent, Some(<<"Sam Lee", "Pat">>)),
      Src("B", Some("dealer stress"), Absent, Some(<<"Pat", "Pat">>)) }

MaxInterleavedSources == 2

InterleavedSpeakerArgs ==
    { ToolArgs(Absent, f, Absent, p, Absent, Absent) :
        f \in {Absent, Some("sam")}, p \in {Absent, Some("acme")} }

InterleavedPainPointArgs ==
    { [ToolArgs(Absent, Absent, Absent, p, Absent, Absent) EXCEPT !.limit = l] :
        l \in {Absent, Some(1)}, p \in {Absent, Some("acme")} }

\* records the analyze handler is run on
AnalyzeCatalogue ==
    { Src("Interview A", Some("Pricing felt unfair"), Absent, Absent),
      Src("Interview B", Absent, Some("The dealer was pushy"), Absent) }

MaxAnalyzeSources == 2

AnalyzeArgs ==
    { ToolArgs(Absent, Absent, q, Absent, m, s) :
        q \in {Absent, Some(""), Some("Why do users avoid car dealerships?")},
        m \in {Absent, Some(0), Some(1), Some(-1)},
        s \in {Absent, Some(FALSE), Some(TRUE)} }

AnalyzeContexts == {Context(q, p, k) : q \in BOOLEAN, p \in BOOLEAN, k \in BOOLEAN}

\* what the completion API can answer: a 2xx response with or without text
\* in its content, a non-2xx response, a failed request (text: the error's
\* message), or a 2xx response whose body response.json() cannot parse
ApiResponses ==
    { [kind |-> "ok", status |-> "200", text |-> Some("Dealers feel pushy")],
      [kind |-> "ok", status |-> "200", text |-> Absent],
      [kind |-> "not_ok", status |-> "529", text |-> Some("overloaded")],
      [kind |-> "rejected", status |-> "", text |-> Some("fetch failed")],
      [kind |-> "bad_body", status |-> "200", text |-> Some("Unexpected end of JSON input")] }

\* what context.propose can resolve with
ProposalIds == {"p1"}

-----------------------------------------------------------------------------
(* getAllSources                                                           *)

QueryLimit == 200

\* (args.project as string) || 'ridekick'
ProjectOf(a) == IF Truthy(a.project) THEN a.project[1] ELSE "ridekick"

\* if (!context.query) return [];
QueryUnavailable(c) == ~c.query

\* if (!supabaseUrl || !supabaseKey) throw ...
RestMisconfigured(c) == ~c.supabase

\* Variant: the host's query is sent twice (a second page is requested
\* along with the first).
getAllSourcesTwoPages(project, c, next) ==
    IF c.rest
    THEN IF RestMisconfigured(c)
         THEN /\ pc' = "thrown"
              /\ error' = "SUPABASE_URL and SUPABASE_ANON_KEY must be set"
              /\ fetchStatus' = "misconfigured"
              /\ UNCHANGED <<sources, queries>>
         ELSE /\ pc' = "awaiting_rest"
              /\ queries' = Append(queries, [project |-> project, order |-> "created_at.desc"])
              /\ fetchStatus' = "pending"
              /\ UNCHANGED <<sources, error>>
    ELSE IF QueryUnavailable(c)
         THEN /\ sources' = <<>>
              /\ pc' = next
              /\ fetchStatus' = "unavailable"
              /\ UNCHANGED <<queries, error>>
         ELSE /\ pc' = "awaiting_query"
              /\ queries' = queries \o <<[project |-> project, limit |-> QueryLimit],
                                          [project |-> project, limit |-> QueryLimit]>>
              /\ fetchStatus' = "pending"
              /\ UNCHANGED <<sources, error>>

\* getAllSources up to its await: the call of context.query({ project,
\* limit: 200 }) or, in the REST build, of fetch(`.../rest/v1/sources?...`)
getAllSources(project, c, next) ==
    IF c.rest
    THEN IF RestMisconfigured(c)
         THEN /\ pc' = "thrown"
              /\ error' = "SUPABASE_URL and SUPABASE_ANON_KEY must be set"
              /\ fetchStatus' = "misconfigured"
              /\ UNCHANGED <<sources, queries>>
         ELSE /\ pc' = "awaiting_rest"
              /\ queries' = Append(queries, [project |-> project, order |-> "created_at.desc"])
              /\ fetchStatus' = "pending"
              /\ UNCHANGED <<sources, error>>
    ELSE IF QueryUnavailable(c)
         THEN /\ sources' = <<>>
              /\ pc' = next
              /\ fetchStatus' = "unavailable"
              /\ UNCHANGED <<queries, error>>
         ELSE /\ pc' = "awaiting_query"
              /\ queries' = Append(queries, [project |-> project, limit |-> QueryLimit])
              /\ fetchStatus' = "pending"
              /\ UNCHANGED <<sources, error>>

-----------------------------------------------------------------------------
(* ridekick_hypothesis                                                     *)

stopWords ==
    {"users", "find", "the", "a", "an", "is", "are", "that", "this", "to",
     "for", "of", "in", "on", "with"}

positiveWords == <<"love", "great", "easy", "helpful", "good", "like", "enjoy", "simple">>

negativeWords ==
    <<"hate", "confusing", "hard", "difficult", "frustrating", "stress",
      "annoying", "pain", "problem">>

\* words.filter(w => w.length > 3 && !stopWords.has(w))
IsKeyword(w) == Len(w) > 3 /\ w \notin stopWords

ExtractKeywords(hypothesis) ==
    SelectSeq(split(toLowerCase(hypothesis)), LAMBDA w : IsKeyword(w))

\* `${source.summary || ''} ${source.content || ''}`.toLowerCase()
HypothesisContent(source) ==
    toLowerCase(OrEmpty(source.summary) \o " " \o OrEmpty(source.content))

SnippetMax == 200

\* source.summary?.slice(0, 200) || 'No summary available'
Snippet(source) ==
    IF source.summary # Absent /\ Slice(source.summary[1], SnippetMax) # ""
    THEN Slice(source.summary[1], SnippetMax)
    ELSE "No summary available"

\* Variant: the argument is only tested against undefined, so '' passes.
MissingOnlyUndefined(o) == o = Absent

\* if (!hypothesis) / if (!question)
Missing(o) == ~Truthy(o)

\* keywords.filter(k => content.includes(k)).length
matchCount(kw, source) == CountIncluded(kw, HypothesisContent(source))

positiveCount(source) == CountIncluded(positiveWords, HypothesisContent(source))

negativeCount(source) == CountIncluded(negativeWords, HypothesisContent(source))

\* Variant: two independent ifs with >=, so a tie is pushed to both lists.
ClassifyBoth(m, pos, neg) ==
    [supporting    |-> m # 0 /\ neg >= pos,
     contradicting |-> m # 0 /\ pos >= neg,
     neutral       |-> FALSE]

\* Variant: a tie counts as neutral from a single keyword match on.
ClassifyLooseNeutral(m, pos, neg) ==
    [supporting    |-> m # 0 /\ neg > pos,
     contradicting |-> m # 0 /\ ~(neg > pos) /\ pos > neg,
     neutral       |-> m # 0 /\ ~(neg > pos) /\ ~(pos > neg) /\ m >= 1]

\* Variant: the `matchCount === 0` skip is missing.
ClassifyNoSkip(m, pos, neg) ==
    [supporting    |-> neg > pos,
     contradicting |-> ~(neg > pos) /\ pos > neg,
     neutral       |-> ~(neg > pos) /\ ~(pos > neg) /\ m >= 2]

\* The if / else-if chain of the loop body: which of the three lists the
\* record is pushed to (at most one of the three is TRUE).
Classify(m, pos, neg) ==
    [supporting    |-> m # 0 /\ neg > pos,
     contradicting |-> m # 0 /\ ~(neg > pos) /\ pos > neg,
     neutral       |-> m # 0 /\ ~(neg > pos) /\ ~(pos > neg) /\ m >= 2]

Evidence(source) == [source |-> source.title, evidence |-> Snippet(source)]

\* the keyword lists the handler can extract from its inputs
KeywordLists ==
    {ExtractKeywords(a.hypothesis[1]) : a \in {b \in HypothesisArgs : ~Missing(b.hypothesis)}}

\* matchCount, positiveCount, negativeCount and Evidence, evaluated once per
\* (keywords, record)
ScanTable ==
    [kw \in KeywordLists, source \in HypothesisCatalogue |->
        [matchCount    |-> matchCount(kw, source),
         positiveCount |-> positiveCount(source),
         negativeCount |-> negativeCount(source),
         evidence      |-> Evidence(source)]]

\* Variant: `totalEvidence > 3` instead of `>= 3`.
VerdictLateThreshold(S, C) ==
    IF S + C > 3
    THEN IF S > C * 2
         THEN [verdict |-> "SUPPORTED", confidence |-> IF S >= 5 THEN "HIGH" ELSE "MEDIUM"]
         ELSE IF C > S * 2
              THEN [verdict |-> "CONTRADICTED",
                    confidence |-> IF C >= 5 THEN "HIGH" ELSE "MEDIUM"]
              ELSE [verdict |-> "MIXED", confidence |-> "MEDIUM"]
    ELSE [verdict |-> "INSUFFICIENT_EVIDENCE", confidence |-> "LOW"]

\* Variant: `>=` instead of `>` in the two ratio tests.
VerdictInclusiveRatio(S, C) ==
    IF S + C >= 3
    THEN IF S >= C * 2
         THEN [verdict |-> "SUPPORTED", confidence |-> IF S >= 5 THEN "HIGH" ELSE "MEDIUM"]
         ELSE IF C >= S * 2
              THEN [verdict |-> "CONTRADICTED",
                    confidence |-> IF C >= 5 THEN "HIGH" ELSE "MEDIUM"]
              ELSE [verdict |-> "MIXED", confidence |-> "MEDIUM"]
    ELSE [verdict |-> "INSUFFICIENT_EVIDENCE", confidence |-> "LOW"]

\* verdict and confidence from supporting.length and contradicting.length
Verdict(S, C) ==
    IF S + C >= 3
    THEN IF S > C * 2
         THEN [verdict |-> "SUPPORTED", confidence |-> IF S >= 5 THEN "HIGH" ELSE "MEDIUM"]
         ELSE IF C > S * 2
              THEN [verdict |-> "CONTRADICTED",
                    confidence |-> IF C >= 5 THEN "HIGH" ELSE "MEDIUM"]
              ELSE [verdict |-> "MIXED", confidence |-> "MEDIUM"]
    ELSE [verdict |-> "INSUFFICIENT_EVIDENCE", confidence |-> "LOW"]

EvidenceMax == 5

\* Variant: slice(0, 6).
TruncateEvidenceOffByOne(list) == Slice(list, EvidenceMax + 1)

\* supporting.slice(0, 5), contradicting.slice(0, 5)
TruncateEvidence(list) == Slice(list, EvidenceMax)

Recommendation(verdict) ==
    IF verdict = "INSUFFICIENT_EVIDENCE"
    THEN Some("Need more user interviews to validate this hypothesis")
    ELSE IF verdict = "MIXED"
         THEN Some("Consider segmenting users - hypothesis may be true for some segments")
         ELSE Absent

HypothesisResult(hypothesis, sup, con, neu) ==
    LET v == Verdict(Len(sup), Len(con))
    IN  [hypothesis       |-> hypothesis,
         verdict          |-> v.verdict,
         confidence       |-> v.confidence,
         supporting       |-> TruncateEvidence(sup),
         contradicting    |-> TruncateEvidence(con),
         neutral_mentions |-> Len(neu),
         recommendation   |-> Recommendation(v.verdict)]

\* The handler up to its first await: validation, keyword extraction and
\* the call of getAllSources.
hypothesisInvoke ==
    /\ pc = "idle"
    /\ \E a \in HypothesisArgs, c \in HypothesisContexts :
        /\ tool' = "hypothesis"
        /\ args' = a
        /\ context' = c
        /\ IF Missing(a.hypothesis)
           THEN /\ pc' = "thrown"
                /\ error' = "hypothesis is required"
                /\ UNCHANGED <<keywords, sources, queries, fetchStatus>>
           ELSE /\ keywords' = ExtractKeywords(a.hypothesis[1])
                /\ getAllSources(ProjectOf(a), c, "scanning")
    /\ UNCHANGED <<parked, painPointCounts, response, idx, supporting, contradicting,
                   neutral, speakerMap, result, apiCalls, proposals,
                   analysis>>

\* One iteration of `for (const source of sources)`.
hypothesisScan ==
    /\ pc = "scanning"
    /\ tool = "hypothesis"
    /\ idx < Len(sources)
    /\ LET source == sources[idx + 1]
           counts == ScanTable[keywords, source]
           cls    == Classify(counts.matchCount, counts.positiveCount, counts.negativeCount)
           ev     == counts.evidence
       IN  /\ supporting' = IF cls.supporting THEN Append(supporting, ev) ELSE supporting
           /\ contradicting' = IF cls.contradicting
                               THEN Append(contradicting, ev) ELSE contradicting
           /\ neutral' = IF cls.neutral
                         THEN Append(neutral, [source |-> source.title]) ELSE neutral
    /\ idx' = idx + 1
    /\ UNCHANGED <<parked, painPointCounts, fetchStatus, response, tool, args,
                   context, pc, sources, keywords, speakerMap, result, error,
                   queries, apiCalls, proposals, analysis>>

\* After the loop: verdict, truncation and return.
hypothesisReturn ==
    /\ pc = "scanning"
    /\ tool = "hypothesis"
    /\ idx = Len(sources)
    /\ result' = HypothesisResult(args.hypothesis[1], supporting, contradicting, neutral)
    /\ pc' = "returned"
    /\ UNCHANGED <<parked, painPointCounts, fetchStatus, response, tool, args,
                   context, sources, idx, keywords, supporting, contradicting,
                   neutral, speakerMap, error, queries, apiCalls, proposals,
                   analysis>>

-----------------------------------------------------------------------------
(* ridekick_speakers                                                       *)

themeKeywords ==
    <<"pricing", "trust", "time", "dealer", "negotiation", "research", "stress",
      "confidence">>

\* source.participants || []
ParticipantsOf(source) ==
    IF source.participants # Absent THEN source.participants[1] ELSE <<>>

\* Variant: the participant's name is compared without lowercasing it.
FilteredOutCaseSensitive(speakerFilter, participant) ==
    /\ Truthy(speakerFilter)
    /\ ~Includes(participant, toLowerCase(speakerFilter[1]))

\* the `continue` test: speakerFilter &&
\*   !participant.toLowerCase().includes(speakerFilter.toLowerCase())
FilteredOut(speakerFilter, participant) ==
    /\ Truthy(speakerFilter)
    /\ ~Includes(toLowerCase(participant), toLowerCase(speakerFilter[1]))

\* the theme keywords found in (source.summary || '').toLowerCase(), in the
\* order of the keywords array
ThemesIn(source) ==
    SelectSeq(themeKeywords, LAMBDA k : Includes(toLowerCase(OrEmpty(source.summary)), k))

\* every participant name of the inputs
SpeakerNames ==
    UNION {{ParticipantsOf(s)[i] : i \in 1..Len(ParticipantsOf(s))} : s \in SpeakerCatalogue}

\* FilteredOut and ThemesIn, evaluated once per input
FilterTable == [f \in SpeakerFilters, n \in SpeakerNames |-> FilteredOut(f, n)]

ThemesTable == [s \in SpeakerCatalogue |-> ThemesIn(s)]

\* position of the key in the Map (0: not present)
MapIndex(map, name) ==
    IF \E i \in 1..Len(map) : map[i].name = name
    THEN CHOOSE i \in 1..Len(map) : map[i].name = name
    ELSE 0

RECURSIVE AddAll(_, _)
\* Set.prototype.add of each element, keeping insertion order
AddAll(set, elems) ==
    IF elems = <<>> THEN set
    ELSE AddAll(IF \E i \in 1..Len(set) : set[i] = Head(elems)
                THEN set ELSE Append(set, Head(elems)),
                Tail(elems))

\* existing.appearances++
BumpAppearances(n) == n + 1

\* the body of the inner loop for a participant that passes the filter
AddAppearance(map, participant, source) ==
    LET i        == MapIndex(map, participant)
        existing == IF i # 0 THEN map[i]
                    ELSE [name |-> participant, appearances |-> 0, sources |-> <<>>,
                          themes |-> <<>>]
        updated  == [existing EXCEPT !.appearances = BumpAppearances(@),
                                     !.sources = Append(@, source.title),
                                     !.themes = AddAll(@, ThemesTable[source])]
    IN  IF i # 0 THEN [map EXCEPT ![i] = updated] ELSE Append(map, updated)

RECURSIVE ScanParticipants(_, _, _, _)
\* `for (const participant of participants)` from position i on
ScanParticipants(map, speakerFilter, source, i) ==
    IF i > Len(ParticipantsOf(source)) THEN map
    ELSE LET participant == ParticipantsOf(source)[i]
         IN  ScanParticipants(
                 IF FilterTable[speakerFilter, participant] THEN map
                 ELSE AddAppearance(map, participant, source),
                 speakerFilter, source, i + 1)

ProfileSourcesMax == 5

\* Array.from(speakerMap.entries()).map(...)
Profiles(map) ==
    [i \in 1..Len(map) |->
        [name |-> map[i].name, appearances |-> map[i].appearances,
         sources |-> Slice(map[i].sources, ProfileSourcesMax), themes |-> map[i].themes]]

\* Variant: p goes ahead of the elements it ties with (an unstable sort).
InsertAheadOfTies(sorted, p) ==
    LET k == Cardinality({i \in 1..Len(sorted) : sorted[i].appearances > p.appearances})
    IN  SubSeq(sorted, 1, k) \o <<p>> \o SubSeq(sorted, k + 1, Len(sorted))

\* p goes after every element that does not sort after it
InsertByAppearances(sorted, p) ==
    LET k == Cardinality({i \in 1..Len(sorted) : sorted[i].appearances >= p.appearances})
    IN  SubSeq(sorted, 1, k) \o <<p>> \o SubSeq(sorted, k + 1, Len(sorted))

RECURSIVE SortFrom(_, _, _)
SortFrom(ps, i, sorted) ==
    IF i > Len(ps) THEN sorted
    ELSE SortFrom(ps, i + 1, InsertByAppearances(sorted, ps[i]))

\* profiles.sort((a, b) => b.appearances - a.appearances): a stable sort
SortByAppearances(ps) == SortFrom(ps, 1, <<>>)

ProfilesMax == 10

\* Variant: `speakerFilter !== undefined ? profiles : profiles.slice(0, 10)`.
ReturnedProfilesIfDefined(speakerFilter, profiles) ==
    IF speakerFilter # Absent THEN profiles ELSE Slice(profiles, ProfilesMax)

\* speakerFilter ? profiles : profiles.slice(0, 10)
ReturnedProfiles(speakerFilter, profiles) ==
    IF Truthy(speakerFilter) THEN profiles ELSE Slice(profiles, ProfilesMax)

\* Variant: the count is taken after the truncation to 10.
TotalSpeakersTruncated(profiles) == Len(Slice(profiles, ProfilesMax))

\* total_speakers: profiles.length
TotalSpeakers(profiles) == Len(profiles)

SpeakersResult(speakerFilter, map) ==
    LET profiles == SortByAppearances(Profiles(map))
    IN  [total_speakers |-> TotalSpeakers(profiles),
         profiles       |-> ReturnedProfiles(speakerFilter, profiles)]

\* The handler up to its await of getAllSources.
speakersCall(argSet, contextSet) ==
    /\ pc = "idle"
    /\ \E a \in argSet, c \in contextSet :
        /\ tool' = "speakers"
        /\ args' = a
        /\ context' = c
        /\ getAllSources(ProjectOf(a), c, "scanning")
    /\ UNCHANGED <<parked, painPointCounts, response, idx, keywords, supporting,
                   contradicting, neutral, speakerMap, result, apiCalls,
                   proposals, analysis>>

speakersInvoke == speakersCall(SpeakerArgs, SpeakerContexts)

\* One iteration of `for (const source of sources)`.
speakersScan ==
    /\ pc = "scanning"
    /\ tool = "speakers"
    /\ idx < Len(sources)
    /\ speakerMap' = ScanParticipants(speakerMap, args.speaker, sources[idx + 1], 1)
    /\ idx' = idx + 1
    /\ UNCHANGED <<parked, painPointCounts, fetchStatus, response, tool, args,
                   context, pc, sources, keywords, supporting, contradicting,
                   neutral, result, error, queries, apiCalls, proposals,
                   analysis>>

\* After the loop: format, sort, truncate and return.
speakersReturn ==
    /\ pc = "scanning"
    /\ tool = "speakers"
    /\ idx = Len(sources)
    /\ result' = SpeakersResult(args.speaker, speakerMap)
    /\ pc' = "returned"
    /\ UNCHANGED <<parked, painPointCounts, fetchStatus, response, tool, args,
                   context, sources, idx, keywords, supporting, contradicting,
                   neutral, speakerMap, error, queries, apiCalls, proposals,
                   analysis>>

-----------------------------------------------------------------------------
(* ridekick_ping                                                           *)

\* the args of ridekick_ping, beside the fields no call of it sets
PingArgsOf(message, delay_ms, simulate_error) ==
    [message |-> message, delay_ms |-> delay_ms, simulate_error |-> simulate_error]
        @@ ToolArgs(Absent, Absent, Absent, Absent, Absent, Absent)

PingArgs ==
    { PingArgsOf(m, d, e) :
        m \in {Absent, Some(""), Some("hello")},
        d \in {Absent, Some(0), Some(25), Some(-1)},
        e \in {Absent, Some(FALSE), Some(TRUE)} }

PingContexts == {Context(TRUE, TRUE, TRUE), Context(FALSE, FALSE, FALSE)}

\* values of new Date().toISOString()
Timestamps == {"2026-01-01T00:00:00.000Z", "2026-01-01T00:00:00.025Z"}

\* (args.message as string) || 'pong'
MessageOf(a) == IF Truthy(a.message) /\ a.message[1] # "" THEN a.message[1] ELSE "pong"

\* (args.delay_ms as number) || 0
DelayOf(a) == IF a.delay_ms # Absent /\ a.delay_ms[1] # 0 THEN a.delay_ms[1] ELSE 0

\* (args.simulate_error as boolean) || false
SimulateError(a) == a.simulate_error # Absent /\ a.simulate_error[1]

RECURSIVE DecimalOf(_)
\* a non-negative integer in a template literal
DecimalOf(n) ==
    IF n < 10 THEN SubSeq("0123456789", n + 1, n + 1)
    ELSE DecimalOf(n \div 10) \o DecimalOf(n % 10)

\* the returned object; .filter(Boolean) drops the null of a run without delay
PingResult(a, timestamp) ==
    [status |-> "ok",
     message |-> MessageOf(a),
     timestamp |-> timestamp,
     extension |-> "lore-ridekick-research",
     version |-> "0.1.0",
     features_tested |->
         <<"Tool execution", "Argument parsing", "Return value serialization">>
         \o (IF DelayOf(a) > 0
             THEN <<"Async delay (" \o DecimalOf(DelayOf(a)) \o "ms)">>
             ELSE <<>>)]

\* from `if (simulateError)` to the end of the handler
pingFinish(a) ==
    IF SimulateError(a)
    THEN /\ pc' = "thrown"
         /\ error' = "Simulated error for testing"
         /\ UNCHANGED result
    ELSE /\ pc' = "returned"
         /\ \E timestamp \in Timestamps : result' = PingResult(a, timestamp)
         /\ UNCHANGED error

\* The handler up to its await of the timer, or to its end without delay.
pingInvoke ==
    /\ pc = "idle"
    /\ \E a \in PingArgs, c \in PingContexts :
        /\ tool' = "ping"
        /\ args' = a
        /\ context' = c
        /\ IF DelayOf(a) > 0
           THEN /\ pc' = "awaiting_delay"
                /\ UNCHANGED <<result, error>>
           ELSE pingFinish(a)
    /\ UNCHANGED <<parked, sources, idx, keywords, supporting, contradicting,
                   neutral, speakerMap, queries, apiCalls, proposals, analysis,
                   painPointCounts, fetchStatus, response>>

\* The timer fires: the rest of the handler.
pingDelayed ==
    /\ pc = "awaiting_delay"
    /\ pingFinish(args)
    /\ UNCHANGED <<parked, tool, args, context, sources, idx, keywords,
                   supporting, contradicting, neutral, speakerMap, queries,
                   apiCalls, proposals, analysis, painPointCounts, fetchStatus,
                   response>>

-----------------------------------------------------------------------------
(* ridekick_analyze                                                        *)

DefaultMaxSources == 10

\* (args.max_sources as number) || 10
MaxSourcesOf(a) ==
    IF a.max_sources # Absent /\ a.max_sources[1] # 0
    THEN a.max_sources[1] ELSE DefaultMaxSources

\* (args.save_as_document as boolean) || false
SaveAsDocument(a) == a.save_as_document # Absent /\ a.save_as_document[1]

\* Variant: every fetched source goes into the prompt.
SourcesToAnalyzeAll(a, srcs) == srcs

\* sources.slice(0, maxSources)
SourcesToAnalyze(a, srcs) == Slice(srcs, MaxSourcesOf(a))

Titles(srcs) == [i \in 1..Len(srcs) |-> srcs[i].title]

TitleMax == 50

\* `Analysis: ${question.slice(0, 50)}${question.length > 50 ? '...' : ''}`
ProposalTitle(question) ==
    "Analysis: " \o Slice(question, TitleMax) \o (IF Len(question) > TitleMax THEN "..." ELSE "")

\* Variant: the analysis is proposed as a change of an existing source.
ProposalAsUpdate(question, n) ==
    [type |-> "update_source", title |-> ProposalTitle(question), project |-> "ridekick",
     sources |-> n]

\* the change handed to context.propose
Proposal(question, n) ==
    [type |-> "create_source", title |-> ProposalTitle(question), project |-> "ridekick",
     sources |-> n]

ErrorResult(message, details, sources_available) ==
    [status |-> "error", message |-> message, details |-> details,
     sources_available |-> sources_available]

OkResult(question, text, analyzed, proposalId) ==
    [status           |-> "ok",
     question         |-> question,
     analysis         |-> text,
     sources_analyzed |-> Len(analyzed),
     source_titles    |-> Titles(analyzed),
     proposal_id      |-> proposalId,
     proposal_note    |-> IF Truthy(proposalId)
                          THEN Some("Analysis proposed as new document. Review with: lore pending show "
                                    \o proposalId[1])
                          ELSE Absent]

\* The handler up to its await of getAllSources.
analyzeInvoke ==
    /\ pc = "idle"
    /\ \E a \in AnalyzeArgs, c \in AnalyzeContexts :
        /\ tool' = "analyze"
        /\ args' = a
        /\ context' = c
        /\ IF Missing(a.question)
           THEN /\ pc' = "thrown"
                /\ error' = "question is required"
                /\ UNCHANGED <<sources, queries, fetchStatus>>
           ELSE /\ getAllSources("ridekick", c, "fetched")
    /\ UNCHANGED <<parked, painPointCounts, response, idx, keywords, supporting,
                   contradicting, neutral, speakerMap, result, apiCalls,
                   proposals, analysis>>

\* From the fetched sources to the fetch() of the completion API.
analyzeGates ==
    /\ pc = "fetched"
    /\ tool = "analyze"
    /\ IF Len(sources) = 0
       THEN /\ result' = ErrorResult(
                    "No ridekick sources found. Add some user research data first.",
                    Absent, Absent)
            /\ pc' = "returned"
            /\ apiCalls' = apiCalls
       ELSE IF ~context.apiKey
       THEN /\ result' = ErrorResult(
                    "ANTHROPIC_API_KEY not set. Cannot perform AI analysis.",
                    Absent, Some(Len(sources)))
            /\ pc' = "returned"
            /\ apiCalls' = apiCalls
       ELSE /\ apiCalls' = Append(apiCalls,
                    [question |-> args.question[1],
                     sources  |-> Titles(SourcesToAnalyze(args, sources))])
            /\ pc' = "awaiting_api"
            /\ result' = result
    /\ UNCHANGED <<parked, painPointCounts, fetchStatus, response, tool, args,
                   context, sources, idx, keywords, supporting, contradicting,
                   neutral, speakerMap, error, queries, proposals, analysis>>

\* Variant: a non-ok response is returned without its body as details.
ApiFailureNoDetails(r) ==
    IF r.kind = "not_ok"
    THEN ErrorResult("Claude API error: " \o r.status, Absent, Absent)
    ELSE ErrorResult(r.text[1], Absent, Absent)

\* `if (!response.ok)` returns the status and the body; the catch block
\* returns the error's message
ApiFailure(r) ==
    IF r.kind = "not_ok"
    THEN ErrorResult("Claude API error: " \o r.status, r.text, Absent)
    ELSE ErrorResult(r.text[1], Absent, Absent)

\* The request or the reading of the response fails (the catch block), or
\* the response is not ok.
apiError ==
    /\ pc = "awaiting_api"
    /\ \E r \in {x \in ApiResponses : x.kind # "ok"} :
        /\ response' = r
        /\ result' = ApiFailure(r)
    /\ pc' = "returned"
    /\ UNCHANGED <<parked, painPointCounts, fetchStatus, tool, args, context, sources,
                   idx, keywords, supporting, contradicting, neutral,
                   speakerMap, error, queries, apiCalls, proposals, analysis>>

\* Variant: `if (saveAsDocument)`, without the test of context.propose.
ShouldProposeUnguarded(a, c) == SaveAsDocument(a)

\* if (saveAsDocument && context.propose)
ShouldPropose(a, c) == SaveAsDocument(a) /\ c.propose

\* The response is ok: read the analysis, then propose or return.
apiOk ==
    /\ pc = "awaiting_api"
    /\ \E r \in {x \in ApiResponses : x.kind = "ok"} :
        LET text == IF Truthy(r.text) THEN r.text[1] ELSE "No response from Claude"
            n    == Len(SourcesToAnalyze(args, sources))
        IN  /\ response' = r
            /\ analysis' = text
            /\ IF ShouldPropose(args, context)
               THEN /\ proposals' = Append(proposals, Proposal(args.question[1], n))
                    /\ pc' = "awaiting_propose"
                    /\ result' = result
               ELSE /\ result' = OkResult(args.question[1], text,
                                          SourcesToAnalyze(args, sources), Absent)
                    /\ pc' = "returned"
                    /\ proposals' = proposals
    /\ UNCHANGED <<parked, painPointCounts, fetchStatus, tool, args, context, sources,
                   idx, keywords, supporting, contradicting, neutral,
                   speakerMap, error, queries, apiCalls>>

\* context.propose resolves with the proposal's id.
proposeResolve ==
    /\ pc = "awaiting_propose"
    /\ \E id \in ProposalIds :
        result' = OkResult(args.question[1], analysis, SourcesToAnalyze(args, sources),
                           Some(id))
    /\ pc' = "returned"
    /\ UNCHANGED <<parked, painPointCounts, fetchStatus, response, tool, args,
                   context, sources, idx, keywords, supporting, contradicting,
                   neutral, speakerMap, error, queries, apiCalls, proposals,
                   analysis>>

\* context.propose rejects inside the try block: the catch returns an error.
proposeReject ==
    /\ pc = "awaiting_propose"
    /\ result' = ErrorResult("propose failed", Absent, Absent)
    /\ pc' = "returned"
    /\ UNCHANGED <<parked, painPointCounts, fetchStatus, response, tool, args,
                   context, sources, idx, keywords, supporting, contradicting,
                   neutral, speakerMap, error, queries, apiCalls, proposals,
                   analysis>>

-----------------------------------------------------------------------------
(* ridekick_pain_points                                                    *)

\* a regular expression is the sequence of its alternatives; an alternative
\* is a literal, or two literals around `.?`
Lit(str) == [head |-> str, gap |-> FALSE, tail |-> ""]

OptionalChar(head, tail) == [head |-> head, gap |-> TRUE, tail |-> tail]

painPointPatterns ==
    << [pattern  |-> <<Lit("price"), Lit("pricing"), Lit("prices")>>,
        category |-> "Pricing Confusion",
        keywords |-> <<"price", "pricing", "cost", "expensive", "overpriced">>],
       [pattern  |-> <<Lit("trust"), Lit("honest"), Lit("scam"), Lit("shady")>>,
        category |-> "Trust Issues",
        keywords |-> <<"trust", "honest", "scam", "shady", "skeptical">>],
       [pattern  |-> <<Lit("time"), Lit("hours"), Lit("long"), Lit("slow")>>,
        category |-> "Time Consuming",
        keywords |-> <<"time", "hours", "long", "slow", "waiting">>],
       [pattern  |-> <<Lit("negotiat")>>,
        category |-> "Negotiation Stress",
        keywords |-> <<"negotiate", "negotiation", "haggle", "bargain">>],
       [pattern  |-> <<Lit("dealer"), Lit("salesperson"), Lit("sales")>>,
        category |-> "Dealer Experience",
        keywords |-> <<"dealer", "salesperson", "pushy", "pressure">>],
       [pattern  |-> <<Lit("research"), Lit("information"), Lit("compare")>>,
        category |-> "Research Burden",
        keywords |-> <<"research", "information", "compare", "options">>],
       [pattern  |-> <<Lit("confus"), Lit("overwhelm"), Lit("complicated")>>,
        category |-> "Complexity",
        keywords |-> <<"confusing", "overwhelming", "complicated", "complex">>],
       [pattern  |-> <<Lit("financ"), Lit("loan"), Lit("credit"), Lit("payment")>>,
        category |-> "Financing",
        keywords |-> <<"financing", "loan", "credit", "payment", "interest">>],
       [pattern  |-> <<OptionalChar("trade", "in"), Lit("value")>>,
        category |-> "Trade-in Value",
        keywords |-> <<"trade-in", "value", "worth">>],
       [pattern  |-> <<Lit("hidden"), Lit("fee"), Lit("surprise")>>,
        category |-> "Hidden Costs",
        keywords |-> <<"hidden", "fees", "surprise", "unexpected">>] >>

\* the characters `.` does not match
LineTerminators == {"\n", "\r"}

\* one alternative of a pattern occurs in the (lowercased) string
MatchesAlt(str, alt) ==
    \/ Includes(str, alt.head \o alt.tail)
    \/ /\ alt.gap
       /\ \E i \in 0..(Len(str) - Len(alt.head) - Len(alt.tail) - 1) :
             /\ SubSeq(str, i + 1, i + Len(alt.head)) = alt.head
             /\ SubSeq(str, i + Len(alt.head) + 1, i + Len(alt.head) + 1) \notin LineTerminators
             /\ SubSeq(str, i + Len(alt.head) + 2, i + Len(alt.head) + 1 + Len(alt.tail))
                  = alt.tail

\* pp.pattern.test(content), the pattern having the flag i
test(pattern, content) ==
    \E k \in 1..Len(pattern) : MatchesAlt(toLowerCase(content), pattern[k])

\* `${source.summary || ''} ${source.content || ''}`
PainPointContent(source) == OrEmpty(source.summary) \o " " \o OrEmpty(source.content)

IsTerminator(c) == c \in {".", "!", "?"}

\* the k-th smallest element of a set of numbers
Nth(S, k) == CHOOSE x \in S : Cardinality({y \in S : y <= x}) = k

\* content.split(/[.!?]+/): the pieces between the maximal runs of
\* terminators, the (possibly empty) first and last piece included
splitSentences(content) ==
    LET terminators == {i \in 1..Len(content) : IsTerminator(SubSeq(content, i, i))}
        runStarts   == {i \in terminators : i - 1 \notin terminators}
        runEnds     == {i \in terminators : i + 1 \notin terminators}
        n           == Cardinality(runStarts)
    IN  [j \in 1..(n + 1) |->
            SubSeq(content,
                   IF j = 1 THEN 1 ELSE Nth(runEnds, j - 1) + 1,
                   IF j = n + 1 THEN Len(content) ELSE Nth(runStarts, j) - 1)]

\* String.prototype.trim
trim(str) ==
    LET kept == {i \in 1..Len(str) : ~IsSpace(SubSeq(str, i, i))}
    IN  IF kept = {} THEN ""
        ELSE SubSeq(str, CHOOSE i \in kept : \A j \in kept : i <= j,
                         CHOOSE i \in kept : \A j \in kept : i >= j)

QuoteMinLength == 20

QuoteMaxLength == 200

\* Variant: any sentence with a keyword is quoted, whatever its length.
QuotableAnyLength(keywordList, sentence) ==
    \E k \in 1..Len(keywordList) : Includes(toLowerCase(sentence), keywordList[k])

\* pp.keywords.some(k => sentence.toLowerCase().includes(k)) &&
\*   sentence.length > 20 && sentence.length < 200
Quotable(keywordList, sentence) ==
    /\ \E k \in 1..Len(keywordList) : Includes(toLowerCase(sentence), keywordList[k])
    /\ Len(sentence) > QuoteMinLength
    /\ Len(sentence) < QuoteMaxLength

\* the sentence the inner loop breaks at, trimmed (Absent: it never breaks)
FirstQuote(pp, content) ==
    LET sentences == splitSentences(content)
        quotable  == {i \in 1..Len(sentences) : Quotable(pp.keywords, sentences[i])}
    IN  IF quotable = {} THEN Absent
        ELSE Some(trim(sentences[CHOOSE i \in quotable : \A j \in quotable : i <= j]))

\* pattern.test and the quote search, evaluated once per (record, pattern)
PainPointTable ==
    [source \in PainPointCatalogue \cup InterleavedCatalogue \cup SampleCatalogue |->
        [k \in 1..Len(painPointPatterns) |->
            [matched |-> test(painPointPatterns[k].pattern, PainPointContent(source)),
             quote   |-> FirstQuote(painPointPatterns[k], PainPointContent(source))]]]

\* position of the category in the Map (0: not present)
CategoryIndex(map, category) ==
    IF \E i \in 1..Len(map) : map[i].category = category
    THEN CHOOSE i \in 1..Len(map) : map[i].category = category
    ELSE 0

QuotesMax == 3

\* existing.count++
BumpCount(n) == n + 1

\* Variant: the count follows the list of distinct titles instead of being
\* incremented for every matching record.
AddPainPointPerTitle(map, pp, source, quote) ==
    LET i        == CategoryIndex(map, pp.category)
        existing == IF i # 0 THEN map[i]
                    ELSE [category |-> pp.category, count |-> 0, sources |-> <<>>,
                          quotes |-> <<>>]
        titles   == IF \E j \in 1..Len(existing.sources) : existing.sources[j] = source.title
                    THEN existing.sources ELSE Append(existing.sources, source.title)
        updated  ==
            [existing EXCEPT
                !.count   = Len(titles),
                !.sources = titles,
                !.quotes  = IF quote # Absent /\ Len(@) < QuotesMax
                            THEN Append(@, quote[1]) ELSE @]
    IN  IF i # 0 THEN [map EXCEPT ![i] = updated] ELSE Append(map, updated)

\* Variant: the title is pushed without the `includes` test.
AddPainPointEveryTitle(map, pp, source, quote) ==
    LET i        == CategoryIndex(map, pp.category)
        existing == IF i # 0 THEN map[i]
                    ELSE [category |-> pp.category, count |-> 0, sources |-> <<>>,
                          quotes |-> <<>>]
        updated  ==
            [existing EXCEPT
                !.count   = BumpCount(@),
                !.sources = Append(@, source.title),
                !.quotes  = IF quote # Absent /\ Len(@) < QuotesMax
                            THEN Append(@, quote[1]) ELSE @]
    IN  IF i # 0 THEN [map EXCEPT ![i] = updated] ELSE Append(map, updated)

\* the body of `if (pp.pattern.test(content))`
AddPainPoint(map, pp, source, quote) ==
    LET i        == CategoryIndex(map, pp.category)
        existing == IF i # 0 THEN map[i]
                    ELSE [category |-> pp.category, count |-> 0, sources |-> <<>>,
                          quotes |-> <<>>]
        updated  ==
            [existing EXCEPT
                !.count   = BumpCount(@),
                !.sources = IF \E j \in 1..Len(@) : @[j] = source.title
                            THEN @ ELSE Append(@, source.title),
                !.quotes  = IF quote # Absent /\ Len(@) < QuotesMax
                            THEN Append(@, quote[1]) ELSE @]
    IN  IF i # 0 THEN [map EXCEPT ![i] = updated] ELSE Append(map, updated)

RECURSIVE ScanPatterns(_, _, _)
\* `for (const pp of painPointPatterns)` from pattern k on
ScanPatterns(map, source, k) ==
    IF k > Len(painPointPatterns) THEN map
    ELSE ScanPatterns(
             IF PainPointTable[source][k].matched
             THEN AddPainPoint(map, painPointPatterns[k], source, PainPointTable[source][k].quote)
             ELSE map,
             source, k + 1)

SampleSourcesMax == 3

\* Array.from(painPointCounts.entries()).map(...)
PainPoints(map) ==
    [i \in 1..Len(map) |->
        [category       |-> map[i].category,
         frequency      |-> map[i].count,
         sources_count  |-> Len(map[i].sources),
         sample_sources |-> Slice(map[i].sources, SampleSourcesMax),
         sample_quotes  |-> map[i].quotes]]

\* p goes after every element that does not sort after it
InsertByFrequency(sorted, p) ==
    LET k == Cardinality({i \in 1..Len(sorted) : sorted[i].frequency >= p.frequency})
    IN  SubSeq(sorted, 1, k) \o <<p>> \o SubSeq(sorted, k + 1, Len(sorted))

RECURSIVE SortFrequenciesFrom(_, _, _)
SortFrequenciesFrom(ps, i, sorted) ==
    IF i > Len(ps) THEN sorted
    ELSE SortFrequenciesFrom(ps, i + 1, InsertByFrequency(sorted, ps[i]))

\* .sort((a, b) => b.frequency - a.frequency): a stable sort
SortByFrequency(ps) == SortFrequenciesFrom(ps, 1, <<>>)

DefaultLimit == 10

\* Variant: `args.limit ?? 10`, so that a limit of 0 stays 0.
LimitOfNullish(a) == IF a.limit # Absent THEN a.limit[1] ELSE DefaultLimit

\* (args.limit as number) || 10
LimitOf(a) == IF a.limit # Absent /\ a.limit[1] # 0 THEN a.limit[1] ELSE DefaultLimit

\* Variant: `painPoints[0]?.category` without the `|| 'None identified'`.
TopPainPointNoSentinel(painPoints) ==
    IF Len(painPoints) > 0 THEN painPoints[1].category ELSE ""

\* painPoints[0]?.category || 'None identified'
TopPainPoint(painPoints) ==
    IF Len(painPoints) > 0 /\ painPoints[1].category # ""
    THEN painPoints[1].category ELSE "None identified"

CoverageMin == 5

PainPointsResult(map, limit, n) ==
    LET painPoints == Slice(SortByFrequency(PainPoints(map)), limit)
    IN  [total_sources_analyzed |-> n,
         pain_points            |-> painPoints,
         top_pain_point         |-> TopPainPoint(painPoints),
         coverage_note          |-> IF n < CoverageMin
                                    THEN Some("Limited data - need more user interviews for reliable pain point analysis")
                                    ELSE Absent]

\* The handler up to its await of getAllSources.
painPointsCall(argSet, contextSet) ==
    /\ pc = "idle"
    /\ \E a \in argSet, c \in contextSet :
        /\ tool' = "pain_points"
        /\ args' = a
        /\ context' = c
        /\ getAllSources(ProjectOf(a), c, "scanning")
    /\ UNCHANGED <<parked, idx, keywords, supporting, contradicting, neutral,
                   speakerMap, result, apiCalls, proposals, analysis,
                   painPointCounts, response>>

painPointsInvoke == painPointsCall(PainPointArgs, PainPointContexts)

\* One iteration of `for (const source of sources)`.
painPointsScan ==
    /\ pc = "scanning"
    /\ tool = "pain_points"
    /\ idx < Len(sources)
    /\ painPointCounts' = ScanPatterns(painPointCounts, sources[idx + 1], 1)
    /\ idx' = idx + 1
    /\ UNCHANGED <<parked, tool, args, context, pc, sources, keywords, supporting,
                   contradicting, neutral, speakerMap, result, error, queries,
                   apiCalls, proposals, analysis, fetchStatus, response>>

\* After the loop: format, sort, truncate and return.
painPointsReturn ==
    /\ pc = "scanning"
    /\ tool = "pain_points"
    /\ idx = Len(sources)
    /\ result' = PainPointsResult(painPointCounts, LimitOf(args), Len(sources))
    /\ pc' = "returned"
    /\ UNCHANGED <<parked, tool, args, context, sources, idx, keywords, supporting,
                   contradicting, neutral, speakerMap, error, queries,
                   apiCalls, proposals, analysis, painPointCounts,
                   fetchStatus, response>>

-----------------------------------------------------------------------------
(* The awaited context.query promise settles.                              *)

\* one record more than the default max_sources of ridekick_analyze
ManyRecords ==
    [i \in 1..(DefaultMaxSources + 1) |->
        IF i % 2 = 1
        THEN Src("Interview A", Some("Pricing felt unfair"), Absent, Absent)
        ELSE Src("Interview B", Absent, Some("The dealer was pushy"), Absent)]

\* the record lists the host can resolve the query with, per handler
SourceLists(t) ==
    IF t = "hypothesis" THEN SeqsUpTo(HypothesisCatalogue, MaxHypothesisSources)
    ELSE IF t = "speakers" THEN SeqsUpTo(SpeakerCatalogue, MaxSpeakerSources)
    ELSE IF t = "pain_points" THEN SeqsUpTo(PainPointCatalogue, MaxPainPointSources)
    ELSE SeqsUpTo(AnalyzeCatalogue, MaxAnalyzeSources) \cup {ManyRecords}

\* where the handler continues after `await getAllSources(...)`
AfterFetch(t) == IF t = "analyze" THEN "fetched" ELSE "scanning"

queryResolveWith(lists) ==
    /\ pc = "awaiting_query"
    /\ \E results \in lists : sources' = results
    /\ pc' = AfterFetch(tool)
    /\ fetchStatus' = "resolved"
    /\ UNCHANGED <<parked, painPointCounts, response, tool, args, context, idx,
                   keywords, supporting, contradicting, neutral, speakerMap,
                   result, error, queries, apiCalls, proposals, analysis>>

queryResolve == queryResolveWith(SourceLists(tool))

\* the promise rejects: the await throws and nothing in the handler catches it
queryReject ==
    /\ pc = "awaiting_query"
    /\ pc' = "thrown"
    /\ error' = "query failed"
    /\ fetchStatus' = "rejected"
    /\ UNCHANGED <<parked, painPointCounts, response, tool, args, context, sources,
                   idx, keywords, supporting, contradicting, neutral,
                   speakerMap, result, queries, apiCalls, proposals,
                   analysis>>

\* REST build: the response is ok and response.json() resolves with the rows
restOk ==
    /\ pc = "awaiting_rest"
    /\ \E results \in SourceLists(tool) : sources' = results
    /\ pc' = AfterFetch(tool)
    /\ fetchStatus' = "ok"
    /\ UNCHANGED <<parked, tool, args, context, idx, keywords, supporting,
                   contradicting, neutral, speakerMap, result, error, queries,
                   apiCalls, proposals, analysis, painPointCounts, response>>

\* Variant: a response that is not ok is thrown as an Error.
restNotOkThrows ==
    /\ pc = "awaiting_rest"
    /\ pc' = "thrown"
    /\ error' = "request failed"
    /\ fetchStatus' = "not_ok"
    /\ UNCHANGED <<parked, tool, args, context, sources, idx, keywords, supporting,
                   contradicting, neutral, speakerMap, result, queries,
                   apiCalls, proposals, analysis, painPointCounts, response>>

\* REST build: `if (!response.ok) return [];`
restNotOk ==
    /\ pc = "awaiting_rest"
    /\ sources' = <<>>
    /\ pc' = AfterFetch(tool)
    /\ fetchStatus' = "not_ok"
    /\ UNCHANGED <<parked, tool, args, context, idx, keywords, supporting,
                   contradicting, neutral, speakerMap, result, error, queries,
                   apiCalls, proposals, analysis, painPointCounts, response>>

\* REST build: fetch() (or response.json()) rejects: the await throws and
\* nothing in getAllSources or in the handler catches it
restReject ==
    /\ pc = "awaiting_rest"
    /\ pc' = "thrown"
    /\ error' = "fetch failed"
    /\ fetchStatus' = "network_error"
    /\ UNCHANGED <<parked, tool, args, context, sources, idx, keywords, supporting,
                   contradicting, neutral, speakerMap, result, queries,
                   apiCalls, proposals, analysis, painPointCounts, response>>

-----------------------------------------------------------------------------
NoArgs == ToolArgs(Absent, Absent, Absent, Absent, Absent, Absent)

NoResult == [status |-> "none"]

NoResponse == [kind |-> "none", status |-> "", text |-> Absent]

\* what one invocation of a handler holds: its arguments and the consts and
\* lets declared inside the handler body
Locals ==
    [tool |-> tool, args |-> args, context |-> context, pc |-> pc,
     sources |-> sources, idx |-> idx, keywords |-> keywords,
     supporting |-> supporting, contradicting |-> contradicting,
     neutral |-> neutral, speakerMap |-> speakerMap, result |-> result,
     error |-> error, analysis |-> analysis,
     painPointCounts |-> painPointCounts, fetchStatus |-> fetchStatus,
     response |-> response]

\* an invocation that has not been made yet
NotStarted ==
    [tool |-> "none", args |-> NoArgs, context |-> Context(FALSE, FALSE, FALSE),
     pc |-> "idle", sources |-> <<>>, idx |-> 0, keywords |-> <<>>,
     supporting |-> <<>>, contradicting |-> <<>>, neutral |-> <<>>,
     speakerMap |-> <<>>, result |-> NoResult, error |-> "", analysis |-> "",
     painPointCounts |-> <<>>, fetchStatus |-> "none", response |-> NoResponse]

Init ==
    /\ parked = NotStarted
    /\ tool = "none"
    /\ args = NoArgs
    /\ context = Context(FALSE, FALSE, FALSE)
    /\ pc = "idle"
    /\ sources = <<>>
    /\ idx = 0
    /\ keywords = <<>>
    /\ supporting = <<>>
    /\ contradicting = <<>>
    /\ neutral = <<>>
    /\ speakerMap = <<>>
    /\ result = NoResult
    /\ error = ""
    /\ queries = <<>>
    /\ apiCalls = <<>>
    /\ proposals = <<>>
    /\ analysis = ""
    /\ painPointCounts = <<>>
    /\ fetchStatus = "none"
    /\ response = NoResponse

NextHypothesis ==
    \/ hypothesisInvoke
    \/ queryResolve
    \/ queryReject
    \/ restOk
    \/ restNotOk
    \/ restReject
    \/ hypothesisScan
    \/ hypothesisReturn

SpecHypothesis == Init /\ [][NextHypothesis]_vars

NextSpeakers ==
    \/ speakersInvoke
    \/ queryResolve
    \/ queryReject
    \/ restOk
    \/ restNotOk
    \/ restReject
    \/ speakersScan
    \/ speakersReturn

SpecSpeakers == Init /\ [][NextSpeakers]_vars

NextPainPoints ==
    \/ painPointsInvoke
    \/ queryResolve
    \/ queryReject
    \/ restOk
    \/ restNotOk
    \/ restReject
    \/ painPointsScan
    \/ painPointsReturn

SpecPainPoints == Init /\ [][NextPainPoints]_vars

NextAnalyze ==
    \/ analyzeInvoke
    \/ queryResolve
    \/ queryReject
    \/ analyzeGates
    \/ apiError
    \/ apiOk
    \/ proposeResolve
    \/ proposeReject

SpecAnalyze == Init /\ [][NextAnalyze]_vars

\* what the extension declares it may do
permissions ==
    [read |-> TRUE, proposeCreate |-> TRUE, proposeModify |-> FALSE,
     proposeDelete |-> FALSE]

Next ==
    \/ pingInvoke
    \/ pingDelayed
    \/ speakersInvoke
    \/ speakersScan
    \/ speakersReturn
    \/ hypothesisInvoke
    \/ hypothesisScan
    \/ hypothesisReturn
    \/ painPointsInvoke
    \/ painPointsScan
    \/ painPointsReturn
    \/ analyzeInvoke
    \/ analyzeGates
    \/ apiError
    \/ apiOk
    \/ proposeResolve
    \/ proposeReject
    \/ queryResolve
    \/ queryReject
    \/ restOk
    \/ restNotOk
    \/ restReject

Spec == Init /\ [][Next]_vars

-----------------------------------------------------------------------------
(* Two invocations at once.  JavaScript runs a handler until it awaits;    *)
(* while it is suspended the host may start or resume another invocation.  *)
(* The variables hold the invocation that is running, `parked` the other.  *)

\* the running invocation is not in the middle of synchronous code
AtAwait ==
    pc \in {"idle", "awaiting_query", "awaiting_rest", "awaiting_api",
            "awaiting_propose", "awaiting_delay", "returned", "thrown"}

\* Variant: speakerMap and painPointCounts declared at module level, one
\* Map for every invocation.
switchInvocationSharedMaps ==
    /\ AtAwait
    /\ parked' = Locals
    /\ tool' = parked.tool
    /\ args' = parked.args
    /\ context' = parked.context
    /\ pc' = parked.pc
    /\ sources' = parked.sources
    /\ idx' = parked.idx
    /\ keywords' = parked.keywords
    /\ supporting' = parked.supporting
    /\ contradicting' = parked.contradicting
    /\ neutral' = parked.neutral
    /\ result' = parked.result
    /\ error' = parked.error
    /\ analysis' = parked.analysis
    /\ fetchStatus' = parked.fetchStatus
    /\ response' = parked.response
    /\ UNCHANGED <<speakerMap, painPointCounts, queries, apiCalls, proposals>>

\* The event loop leaves the running invocation at its await and runs the
\* other one: every const and let of a handler body belongs to its call.
switchInvocation ==
    /\ AtAwait
    /\ parked' = Locals
    /\ tool' = parked.tool
    /\ args' = parked.args
    /\ context' = parked.context
    /\ pc' = parked.pc
    /\ sources' = parked.sources
    /\ idx' = parked.idx
    /\ keywords' = parked.keywords
    /\ supporting' = parked.supporting
    /\ contradicting' = parked.contradicting
    /\ neutral' = parked.neutral
    /\ speakerMap' = parked.speakerMap
    /\ result' = parked.result
    /\ error' = parked.error
    /\ analysis' = parked.analysis
    /\ painPointCounts' = parked.painPointCounts
    /\ fetchStatus' = parked.fetchStatus
    /\ response' = parked.response
    /\ UNCHANGED <<queries, apiCalls, proposals>>

NextInterleaved ==
    \/ speakersCall(InterleavedSpeakerArgs, QueryContexts)
    \/ speakersScan
    \/ speakersReturn
    \/ painPointsCall(InterleavedPainPointArgs, QueryContexts)
    \/ painPointsScan
    \/ painPointsReturn
    \/ queryResolveWith(SeqsUpTo(InterleavedCatalogue, MaxInterleavedSources))
    \/ queryReject
    \/ switchInvocation

SpecInterleaved == Init /\ [][NextInterleaved]_vars

-----------------------------------------------------------------------------
(* ridekick_pain_points on records of one category                         *)

NextPainPointSamples ==
    \/ painPointsCall(SampleArgs, QueryContexts)
    \/ queryResolveWith(SeqsUpTo(SampleCatalogue, MaxSampleSources))
    \/ painPointsScan
    \/ painPointsReturn

SpecPainPointSamples == Init /\ [][NextPainPointSamples]_vars

-----------------------------------------------------------------------------
(* Properties of ridekick_hypothesis                                       *)

HypothesisReturned == tool = "hypothesis" /\ pc = "returned"

IsPrefix(s, u) == Len(s) <= Len(u) /\ SubSeq(u, 1, Len(s)) = s

\* C1: every step of the handler adds at most one entry to the three lists
\* together, and only the scan of one record (idx advancing by one) adds
\* any: no record contributes to both supporting and contradicting, during
\* the scan or in what is returned.
C1_OneListPerRecord ==
    [][ /\ IsPrefix(supporting, supporting')
        /\ IsPrefix(contradicting, contradicting')
        /\ IsPrefix(neutral, neutral')
        /\ Len(supporting') + Len(contradicting') + Len(neutral')
             <= Len(supporting) + Len(contradicting) + Len(neutral) + 1
        /\ (supporting' # supporting \/ contradicting' # contradicting)
             => idx' = idx + 1
        /\ ~(supporting' # supporting /\ contradicting' # contradicting) ]_vars

\* a tie record was scanned between a supporting and a contradicting one
C1_Witness ==
    /\ HypothesisReturned
    /\ Len(supporting) >= 1
    /\ Len(contradicting) >= 1
    /\ Len(neutral) >= 1

\* C2: the verdict is INSUFFICIENT_EVIDENCE, with confidence LOW, exactly
\* when the untruncated lists hold fewer than 3 entries together.
C2_InsufficientBelowThree ==
    HypothesisReturned =>
        LET S == Len(supporting)
            C == Len(contradicting)
        IN  /\ S + C < 3 => /\ result.verdict = "INSUFFICIENT_EVIDENCE"
                            /\ result.confidence = "LOW"
            /\ S + C >= 3 => result.verdict # "INSUFFICIENT_EVIDENCE"

C2_Witness ==
    /\ HypothesisReturned
    /\ Len(supporting) = 1
    /\ Len(contradicting) = 1
    /\ result.verdict = "INSUFFICIENT_EVIDENCE"

\* C3: with S + C >= 3 the verdict is SUPPORTED exactly when S > 2C,
\* CONTRADICTED exactly when C > 2S and MIXED otherwise, the confidence is
\* HIGH from 5 entries on the winning side and MEDIUM otherwise, and the
\* two ratio tests never hold together.
C3_VerdictRule ==
    HypothesisReturned =>
        LET S == Len(supporting)
            C == Len(contradicting)
        IN  S + C >= 3 =>
                /\ ~(S > 2 * C /\ C > 2 * S)
                /\ result.verdict = "SUPPORTED" <=> S > 2 * C
                /\ result.verdict = "CONTRADICTED" <=> C > 2 * S
                /\ result.verdict = "MIXED" <=> (~(S > 2 * C) /\ ~(C > 2 * S))
                /\ result.verdict = "SUPPORTED" =>
                       result.confidence = (IF S >= 5 THEN "HIGH" ELSE "MEDIUM")
                /\ result.verdict = "CONTRADICTED" =>
                       result.confidence = (IF C >= 5 THEN "HIGH" ELSE "MEDIUM")
                /\ result.verdict = "MIXED" => result.confidence = "MEDIUM"

\* the boundary S = 2C
C3_Witness ==
    /\ HypothesisReturned
    /\ Len(supporting) = 4
    /\ Len(contradicting) = 2
    /\ result.verdict = "MIXED"

ExampleHypothesis == "Users find car pricing confusing"

ExampleSummary == "pricing is so confusing and frustrating"

\* C4: the scan of one record pushes it to supporting when it matches a
\* keyword and has more negative than positive words, to contradicting when
\* it has more positive ones, to neutral on a tie with two or more keyword
\* matches, and nowhere on a tie with one match or with no match at all;
\* the record of the scenario goes to supporting.
C4_ClassificationRule ==
    [][ (tool = "hypothesis" /\ pc = "scanning" /\ idx' = idx + 1) =>
          LET source == sources[idx + 1]
              m      == ScanTable[keywords, source].matchCount
              pos    == ScanTable[keywords, source].positiveCount
              neg    == ScanTable[keywords, source].negativeCount
              grew(list, list2) == Len(list2) = Len(list) + 1
          IN  /\ (m >= 1 /\ neg > pos) =>
                    /\ grew(supporting, supporting')
                    /\ supporting'[Len(supporting')].source = source.title
                    /\ UNCHANGED <<contradicting, neutral>>
              /\ (m >= 1 /\ pos > neg) =>
                    /\ grew(contradicting, contradicting')
                    /\ contradicting'[Len(contradicting')].source = source.title
                    /\ UNCHANGED <<supporting, neutral>>
              /\ (m >= 2 /\ pos = neg) =>
                    /\ grew(neutral, neutral')
                    /\ UNCHANGED <<supporting, contradicting>>
              /\ (m < 2 /\ pos = neg) => UNCHANGED <<supporting, contradicting, neutral>>
              /\ m = 0 => UNCHANGED <<supporting, contradicting, neutral>>
              /\ ( /\ args.hypothesis = Some(ExampleHypothesis)
                   /\ source.summary # Absent
                   /\ Includes(source.summary[1], ExampleSummary) ) =>
                    /\ keywords = <<"pricing", "confusing">>
                    /\ m = 2 /\ neg = 2 /\ pos = 0
                    /\ grew(supporting, supporting') ]_vars

\* the record of the scenario was scanned first and is the one supporting entry
C4_Witness ==
    /\ tool = "hypothesis"
    /\ args.hypothesis = Some(ExampleHypothesis)
    /\ idx = 1
    /\ sources[1].summary # Absent
    /\ Includes(sources[1].summary[1], ExampleSummary)
    /\ Len(supporting) = 1
    /\ supporting[1].evidence = sources[1].summary[1]

\* C5: the returned lists are the first (up to) 5 entries of the full lists,
\* in scan order, and the verdict is the one of the full lengths: more than
\* 5 supporting and no contradicting records return 5 entries and
\* SUPPORTED / HIGH.
C5_TruncatedToFive ==
    HypothesisReturned =>
        LET S == Len(supporting)
            C == Len(contradicting)
        IN  /\ Len(result.supporting) = Min(5, S)
            /\ Len(result.contradicting) = Min(5, C)
            /\ IsPrefix(result.supporting, supporting)
            /\ IsPrefix(result.contradicting, contradicting)
            /\ (S > 5 /\ C = 0) =>
                   result.verdict = "SUPPORTED" /\ result.confidence = "HIGH"
            /\ (C > 5 /\ S = 0) =>
                   result.verdict = "CONTRADICTED" /\ result.confidence = "HIGH"
            /\ (S + C < 3) <=> result.verdict = "INSUFFICIENT_EVIDENCE"

C5_Witness ==
    /\ HypothesisReturned
    /\ Len(supporting) = 6
    /\ Len(contradicting) = 0
    /\ Len(result.supporting) = 5
    /\ result.verdict = "SUPPORTED"
    /\ result.confidence = "HIGH"

\* the hypothesis strings none of whose whitespace-separated tokens is
\* longer than 3 characters and outside the stop words
KeywordlessHypotheses ==
    { a.hypothesis[1] : a \in
        { b \in HypothesisArgs :
            /\ b.hypothesis # Absent
            /\ b.hypothesis[1] # ""
            /\ LET words == split(toLowerCase(b.hypothesis[1]))
               IN  \A i \in 1..Len(words) : Len(words[i]) <= 3 \/ words[i] \in stopWords } }

KeywordlessRun ==
    /\ tool = "hypothesis"
    /\ args.hypothesis # Absent
    /\ args.hypothesis[1] \in KeywordlessHypotheses

\* C6: for a non-empty hypothesis without any keyword, every record has
\* matchCount 0, the three lists stay empty and the verdict is
\* INSUFFICIENT_EVIDENCE with no neutral mentions.
C6_NoKeywordsNoEvidence ==
    KeywordlessRun =>
        /\ pc # "thrown" \/ error # "hypothesis is required"
        /\ \A i \in 1..Len(sources) : ScanTable[keywords, sources[i]].matchCount = 0
        /\ supporting = <<>>
        /\ contradicting = <<>>
        /\ neutral = <<>>
        /\ pc = "returned" =>
              /\ result.verdict = "INSUFFICIENT_EVIDENCE"
              /\ result.supporting = <<>>
              /\ result.contradicting = <<>>
              /\ result.neutral_mentions = 0

\* records with negative and with positive words were scanned
C6_Witness ==
    /\ KeywordlessRun
    /\ pc = "returned"
    /\ Len(sources) >= 2
    /\ \E i, j \in 1..Len(sources) :
          /\ ScanTable[keywords, sources[i]].negativeCount > ScanTable[keywords, sources[i]].positiveCount
          /\ ScanTable[keywords, sources[j]].positiveCount > ScanTable[keywords, sources[j]].negativeCount

-----------------------------------------------------------------------------
(* Properties of the argument validation                                   *)

\* the required argument is undefined or ''
RequiredMissing ==
    \/ tool = "hypothesis" /\ (args.hypothesis = Absent \/ args.hypothesis = Some(""))
    \/ tool = "analyze" /\ (args.question = Absent \/ args.question = Some(""))

\* C7: an invocation whose required argument is missing or empty throws
\* its "... is required" error, and at no point of it has a data-source
\* query, a completion-API request or a proposal been made.
C7_InvalidInputBeforeFetch ==
    RequiredMissing =>
        /\ pc = "thrown"
        /\ error = (IF tool = "hypothesis" THEN "hypothesis is required"
                    ELSE "question is required")
        /\ queries = <<>>
        /\ apiCalls = <<>>
        /\ proposals = <<>>
        /\ sources = <<>>

\* the empty question, in a context where the query and the API key exist
C7_Witness ==
    /\ tool = "analyze"
    /\ args.question = Some("")
    /\ context.query
    /\ context.apiKey
    /\ pc = "thrown"

-----------------------------------------------------------------------------
(* Properties of ridekick_speakers                                         *)

SpeakersReturned == tool = "speakers" /\ pc = "returned"

\* the names of a record's participants list
NamesIn(source) == {ParticipantsOf(source)[i] : i \in 1..Len(ParticipantsOf(source))}

\* the names a filter argument selects: all of them without a filter, and
\* with one those whose lowercase form contains the lowercase filter
NamesMatching ==
    [f \in SpeakerFilters |->
        {n \in SpeakerNames : f = Absent \/ Includes(toLowerCase(n), toLowerCase(f[1]))}]

\* the distinct participant names of the fetched records that match the filter
MatchingSpeakers == (UNION {NamesIn(sources[i]) : i \in 1..Len(sources)}) \cap NamesMatching[args.speaker]

\* C8: total_speakers is the number of distinct participant names (compared
\* as exact strings) of the fetched records that match the filter, whether
\* or not the returned profiles were truncated.
C8_TotalSpeakersPreTruncation ==
    SpeakersReturned =>
        /\ result.total_speakers = Cardinality(MatchingSpeakers)
        /\ result.total_speakers >= Len(result.profiles)

\* more than 10 speakers, of which 10 are returned
C8_Witness ==
    /\ SpeakersReturned
    /\ args.speaker = Absent
    /\ result.total_speakers > 10
    /\ Len(result.profiles) = 10

\* the records whose participants list holds the name
RecordsNaming(name) == {i \in 1..Len(sources) : name \in NamesIn(sources[i])}

\* C9: the appearances of every returned profile is the number of fetched
\* records whose participants list holds the name, a record counting once
\* however often it lists the name.
C9_AppearancesCountRecords ==
    SpeakersReturned =>
        \A k \in 1..Len(result.profiles) :
            result.profiles[k].appearances =
                Cardinality(RecordsNaming(result.profiles[k].name))

\* C10 as stated: at most the first 10 sorted profiles without a speaker
\* argument, and every matching profile whenever the argument was supplied,
\* whatever its value.
C10_UntruncatedWheneverSupplied ==
    SpeakersReturned =>
        /\ args.speaker = Absent => Len(result.profiles) <= 10
        /\ args.speaker # Absent => Len(result.profiles) = Cardinality(MatchingSpeakers)

\* C10, amended: every matching profile is returned when the speaker
\* argument is a non-empty string; when it is absent or the empty string the
\* first 10 profiles of the sorted list are returned.
C10_UntruncatedForNonEmptyFilter ==
    SpeakersReturned =>
        LET sorted == SortByAppearances(Profiles(speakerMap))
        IN  /\ Len(sorted) = Cardinality(MatchingSpeakers)
            /\ (args.speaker # Absent /\ args.speaker[1] # "") => result.profiles = sorted
            /\ (args.speaker = Absent \/ args.speaker = Some("")) =>
                  /\ Len(result.profiles) = Min(10, Len(sorted))
                  /\ IsPrefix(result.profiles, sorted)

\* a filter that more than 10 names match
C10_Witness ==
    /\ SpeakersReturned
    /\ args.speaker # Absent
    /\ args.speaker[1] # ""
    /\ Len(result.profiles) > 10

\* the first record naming the speaker, and the first position in its list
FirstRecordNaming(name) ==
    CHOOSE r \in RecordsNaming(name) : \A q \in RecordsNaming(name) : r <= q

FirstPositionIn(name, source) ==
    CHOOSE i \in 1..Len(ParticipantsOf(source)) :
        /\ ParticipantsOf(source)[i] = name
        /\ \A j \in 1..(i - 1) : ParticipantsOf(source)[j] # name

\* n is first seen before m while scanning records and participant lists
SeenBefore(n, m) ==
    LET rn == FirstRecordNaming(n)
        rm == FirstRecordNaming(m)
    IN  \/ rn < rm
        \/ rn = rm /\ FirstPositionIn(n, sources[rn]) < FirstPositionIn(m, sources[rm])

\* C11: the returned profiles are in non-increasing order of appearances,
\* and of two profiles with equal appearances the one whose name was first
\* seen earlier in the scan comes first.
C11_SortedStable ==
    SpeakersReturned =>
        \A i, j \in 1..Len(result.profiles) :
            i < j =>
                /\ result.profiles[i].appearances >= result.profiles[j].appearances
                /\ result.profiles[i].appearances = result.profiles[j].appearances =>
                       SeenBefore(result.profiles[i].name, result.profiles[j].name)

\* a tie between two profiles, and a profile that the sort moved ahead of
\* one seen before it
C11_Witness ==
    /\ SpeakersReturned
    /\ \E i, j \in 1..Len(result.profiles) :
          /\ i < j
          /\ result.profiles[i].appearances = result.profiles[j].appearances
    /\ \E i, j \in 1..Len(result.profiles) :
          /\ i < j
          /\ result.profiles[i].appearances > result.profiles[j].appearances
          /\ SeenBefore(result.profiles[j].name, result.profiles[i].name)

\* the names of the returned profiles
ProfileNames == {result.profiles[k].name : k \in 1..Len(result.profiles)}

\* C12: with a (non-empty) speaker filter the returned profiles are, one
\* each, those of the participant names of the fetched records whose
\* lowercase form contains the lowercase filter; the filter "sam" over the
\* one record with participants ["Sam Lee", "Pat"] returns the single
\* profile "Sam Lee" with appearances 1.
C12_FilterSelectsMatchingNames ==
    (SpeakersReturned /\ Truthy(args.speaker)) =>
        /\ ProfileNames = MatchingSpeakers
        /\ Len(result.profiles) = Cardinality(ProfileNames)
        /\ ( /\ args.speaker = Some("sam")
             /\ Len(sources) = 1
             /\ ParticipantsOf(sources[1]) = <<"Sam Lee", "Pat">> ) =>
               /\ Len(result.profiles) = 1
               /\ result.profiles[1].name = "Sam Lee"
               /\ result.profiles[1].appearances = 1
               /\ result.total_speakers = 1

\* the scenario's record among others: names that match in another case
\* are returned, names that do not match are not
C12_Witness ==
    /\ SpeakersReturned
    /\ args.speaker = Some("sam")
    /\ \E i \in 1..Len(sources) : ParticipantsOf(sources[i]) = <<"Sam Lee", "Pat">>
    /\ ProfileNames = {"Sam Lee", "SAM LEE"}

-----------------------------------------------------------------------------
(* Properties of ridekick_pain_points                                      *)

PainPointsReturned == tool = "pain_points" /\ pc = "returned"

\* the scanned records (the first idx ones) that match pattern k
ScannedMatching(k) == {i \in 1..idx : PainPointTable[sources[i]][k].matched}

\* the count the Map holds for a category (0: no entry)
CountOf(category) ==
    LET i == CategoryIndex(painPointCounts, category)
    IN  IF i = 0 THEN 0 ELSE painPointCounts[i].count

\* C13: at every point of the scan and after it, each category's count is
\* the number of scanned records whose summary + content matches the
\* category's pattern (so a record adds at most one to a category, and may
\* add to several), the Map holds one entry per matched category, and no
\* count exceeds the number of input records.
C13_CountIsMatchingRecords ==
    (tool = "pain_points" /\ pc \in {"scanning", "returned"}) =>
        /\ \A k \in 1..Len(painPointPatterns) :
              /\ CountOf(painPointPatterns[k].category) = Cardinality(ScannedMatching(k))
              /\ CountOf(painPointPatterns[k].category) <= Len(sources)
        /\ \A i, j \in 1..Len(painPointCounts) :
              painPointCounts[i].category = painPointCounts[j].category => i = j
        /\ \A i \in 1..Len(painPointCounts) : painPointCounts[i].count >= 1

\* in the middle of a scan: a record that matched several categories, one
\* that matched none, and a category matched by two records of one title
C13_Witness ==
    /\ tool = "pain_points"
    /\ pc = "scanning"
    /\ idx >= 3
    /\ idx < Len(sources)
    /\ \E i \in 1..idx : \A k \in 1..Len(painPointPatterns) : i \notin ScannedMatching(k)
    /\ \E i \in 1..idx :
          Cardinality({k \in 1..Len(painPointPatterns) : i \in ScannedMatching(k)}) >= 3
    /\ \E e \in 1..Len(painPointCounts) :
          painPointCounts[e].count = 2 /\ Len(painPointCounts[e].sources) = 1

\* the patterns that matched at least one fetched record
MatchedPatterns == {k \in 1..Len(painPointPatterns) : ScannedMatching(k) # {}}

\* C14: for every record list and every limit, top_pain_point is the label
\* of a category of maximal frequency among the categories that matched a
\* record, and it is "None identified" exactly when no category matched.
C14_TopIsMaximalForEveryLimit ==
    PainPointsReturned =>
        /\ result.top_pain_point = "None identified" <=> MatchedPatterns = {}
        /\ MatchedPatterns # {} =>
              \E k \in MatchedPatterns :
                  /\ painPointPatterns[k].category = result.top_pain_point
                  /\ \A j \in MatchedPatterns :
                        Cardinality(ScannedMatching(k)) >= Cardinality(ScannedMatching(j))

\* the returned list is in non-increasing order of frequency
FrequenciesDescend ==
    \A i, j \in 1..Len(result.pain_points) :
        i < j => result.pain_points[i].frequency >= result.pain_points[j].frequency

SentenceTable ==
    [source \in PainPointCatalogue |->
        LET sentences == splitSentences(PainPointContent(source))
        IN  [j \in 1..Len(sentences) |->
                [text       |-> sentences[j],
                 trimmed    |-> trim(sentences[j]),
                 hasKeyword |->
                     [k \in 1..Len(painPointPatterns) |->
                         \E w \in 1..Len(painPointPatterns[k].keywords) :
                             Includes(toLowerCase(sentences[j]),
                                      painPointPatterns[k].keywords[w])]]]]

SentencesOf(source) == {SentenceTable[source][j] : j \in 1..Len(SentenceTable[source])}

\* the sentences a quote of pattern k can come from: those of a scanned
\* record matching the pattern that hold a keyword and trim to the quote
QuoteOrigins(k, quote) ==
    UNION { {st \in SentencesOf(sources[i]) : st.trimmed = quote /\ st.hasKeyword[k]} :
              i \in ScannedMatching(k) }

PatternOf(category) ==
    CHOOSE k \in 1..Len(painPointPatterns) : painPointPatterns[k].category = category

\* C17 as stated: every sample quote is a sentence of a matching record
\* that contains a keyword of the category, and the quote as returned is
\* more than 20 and fewer than 200 characters long.
C17_QuoteLengthAsReturned ==
    PainPointsReturned =>
        \A i \in 1..Len(result.pain_points) :
            \A q \in 1..Len(result.pain_points[i].sample_quotes) :
                LET quote == result.pain_points[i].sample_quotes[q]
                IN  /\ QuoteOrigins(PatternOf(result.pain_points[i].category), quote) # {}
                    /\ Len(quote) > 20
                    /\ Len(quote) < 200

\* C17, amended: every sample quote is the trimmed form of a sentence of a
\* matching record that contains a keyword of the category and whose
\* length before trimming is more than 20 and fewer than 200 characters;
\* the quote itself is not empty and is fewer than 200 characters long.
C17_QuoteLengthBeforeTrim ==
    PainPointsReturned =>
        \A i \in 1..Len(result.pain_points) :
            \A q \in 1..Len(result.pain_points[i].sample_quotes) :
                LET quote == result.pain_points[i].sample_quotes[q]
                IN  /\ \E st \in QuoteOrigins(PatternOf(result.pain_points[i].category), quote) :
                          Len(st.text) > 20 /\ Len(st.text) < 200
                    /\ Len(quote) > 0
                    /\ Len(quote) < 200

\* a category with three quotes from four matching records, whose first
\* sentence with a keyword was too long to be quoted
C17_Witness ==
    /\ PainPointsReturned
    /\ \E i \in 1..Len(result.pain_points) :
          /\ result.pain_points[i].category = "Financing"
          /\ result.pain_points[i].frequency = 4
          /\ Len(result.pain_points[i].sample_quotes) = 3
          /\ result.pain_points[i].sample_quotes[1] = "The loan payment took hours to sort out"

-----------------------------------------------------------------------------
(* Properties of getAllSources and of the handlers on what it returns      *)

\* getAllSources returned to the handler (it did not throw, and is not
\* still awaited)
FetchReturned == fetchStatus \in {"unavailable", "resolved", "ok", "not_ok"}

ScanningTool == tool \in {"pain_points", "speakers", "hypothesis"}

\* what each scanning handler returns when it has no evidence at all
NoEvidenceResult ==
    /\ tool = "pain_points" =>
          /\ result.total_sources_analyzed = 0
          /\ result.pain_points = <<>>
          /\ result.top_pain_point = "None identified"
    /\ tool = "speakers" =>
          /\ result.total_speakers = 0
          /\ result.profiles = <<>>
    /\ tool = "hypothesis" =>
          /\ result.verdict = "INSUFFICIENT_EVIDENCE"
          /\ result.confidence = "LOW"
          /\ result.supporting = <<>>
          /\ result.contradicting = <<>>
          /\ result.neutral_mentions = 0

\* C15: when the fetch returns zero records the handler does not throw,
\* and what it returns is its empty result: no sources analyzed, no pain
\* points and "None identified" for ridekick_pain_points (whatever the
\* limit), no speakers for ridekick_speakers, INSUFFICIENT_EVIDENCE for
\* ridekick_hypothesis.
C15_ZeroRecordsIsNotAnError ==
    (ScanningTool /\ FetchReturned /\ sources = <<>>) =>
        /\ pc \in {"scanning", "returned"}
        /\ error = ""
        /\ pc = "returned" => NoEvidenceResult

\* the host's query resolved with an empty array
C15_Witness ==
    /\ PainPointsReturned
    /\ fetchStatus = "resolved"
    /\ sources = <<>>
    /\ args.limit = Some(2)
    /\ result.top_pain_point = "None identified"

\* the data source is unavailable: context.query is absent, or the REST
\* endpoint answered with a response that is not ok
SourceUnavailable == fetchStatus \in {"unavailable", "not_ok"}

\* C18: when the data source is unavailable getAllSources returns the empty
\* sequence and nothing is thrown (without context.query no request is made
\* at all); the scanning handler has then nothing to scan and returns its
\* no-evidence result.
C18_UnavailableSourceIsEmpty ==
    SourceUnavailable =>
        /\ sources = <<>>
        /\ pc # "thrown"
        /\ error = ""
        /\ fetchStatus = "unavailable" => queries = <<>>
        /\ ScanningTool =>
              /\ pc \in {"scanning", "returned"}
              /\ idx = 0
              /\ pc = "returned" => NoEvidenceResult

\* the REST endpoint answered 'not ok' to the hypothesis handler
C18_Witness ==
    /\ tool = "hypothesis"
    /\ context.rest
    /\ fetchStatus = "not_ok"
    /\ Len(queries) = 1
    /\ pc = "returned"
    /\ result.verdict = "INSUFFICIENT_EVIDENCE"

\* the one request of getAllSources failed: the promise of context.query
\* rejected, or the REST fetch did
FetchFailed == fetchStatus \in {"rejected", "network_error"}

\* C19: a failure of the one request that getAllSources makes leaves the handler
\* with an empty record sequence, and no error reaches the tool's caller.
C19_FetchFailureYieldsEmpty ==
    FetchFailed =>
        /\ sources = <<>>
        /\ pc # "thrown"
        /\ error = ""

-----------------------------------------------------------------------------
(* Properties of ridekick_analyze                                          *)

\* the completion API failed: its response was not ok, the request itself
\* failed, or the body of the response could not be read
ApiFailed == tool = "analyze" /\ response.kind \in {"not_ok", "rejected", "bad_body"}

\* C20: the completion API is only called for a valid question with
\* sources and an API key, and when it fails the handler returns (never
\* throws) a payload with status 'error' and a message, which for a
\* response that is not ok names the status and carries the body as
\* details; no proposal is made in that invocation.
C20_ApiFailureIsReturned ==
    ApiFailed =>
        /\ ~Missing(args.question)
        /\ Len(sources) > 0
        /\ context.apiKey
        /\ Len(apiCalls) = 1
        /\ pc = "returned"
        /\ error = ""
        /\ result.status = "error"
        /\ response.kind = "not_ok" =>
              /\ result.message = "Claude API error: " \o response.status
              /\ result.details = response.text
        /\ response.kind # "not_ok" => result.message = response.text[1]
        /\ proposals = <<>>

\* a response that is not ok, in an invocation that asked for the analysis
\* to be saved and could have proposed it
C20_Witness ==
    /\ ApiFailed
    /\ response.kind = "not_ok"
    /\ SaveAsDocument(args)
    /\ context.propose
    /\ result.details = Some("overloaded")

\* the completion API answered with an ok response whose body was read
ApiSucceeded == tool = "analyze" /\ response.kind = "ok"

\* C21: with save_as_document true and no context.propose, an ok
\* completion response makes the handler return status 'ok' with the
\* analysis and without proposal_id and proposal_note; nothing is thrown
\* and nothing is proposed.
C21_NoProposeStillOk ==
    (ApiSucceeded /\ SaveAsDocument(args) /\ ~context.propose) =>
        /\ pc = "returned"
        /\ error = ""
        /\ result.status = "ok"
        /\ result.analysis = (IF Truthy(response.text) THEN response.text[1]
                               ELSE "No response from Claude")
        /\ result.question = args.question[1]
        /\ result.proposal_id = Absent
        /\ result.proposal_note = Absent
        /\ proposals = <<>>

C21_Witness ==
    /\ ApiSucceeded
    /\ args.save_as_document = Some(TRUE)
    /\ ~context.propose
    /\ result.status = "ok"
    /\ result.analysis = "Dealers feel pushy"

-----------------------------------------------------------------------------
(* Properties of the handlers' outbound calls                              *)

\* the invocation got past its argument validation
ValidationPassed ==
    tool \in {"speakers", "hypothesis", "pain_points", "analyze"} /\ ~RequiredMissing

\* the data source can be asked: context.query exists or, in the REST
\* build, the endpoint's URL and key are configured
CanQuery == IF context.rest THEN context.supabase ELSE context.query

\* at most one data-source request, and for ridekick_analyze at most one
\* completion-API request, sent only after the one data-source request
\* resolved (so the two are never in flight together); the other handlers
\* send no completion-API request
CallsInOrder ==
    /\ Len(queries) <= 1
    /\ Len(apiCalls) <= 1
    /\ apiCalls # <<>> =>
          /\ tool = "analyze"
          /\ Len(queries) = 1
          /\ fetchStatus = "resolved"
          /\ pc \notin {"awaiting_query", "awaiting_rest"}
    /\ pc \in {"awaiting_query", "awaiting_rest"} => Len(queries) = 1

\* C22 as stated: the calls are in order and at most one of each, and an
\* invocation of a scanning handler whose validation passed has made
\* exactly one data-source request.
C22_ExactlyOneQueryWhenValid ==
    /\ CallsInOrder
    /\ (ScanningTool /\ ValidationPassed) => Len(queries) = 1

\* C22, amended: the calls are in order and at most one of each, and an
\* invocation whose validation passed has made exactly one data-source
\* request when the data source can be asked, and none when it cannot;
\* no outcome of the request is followed by another one.
C22_OneQueryWhenAvailable ==
    /\ CallsInOrder
    /\ ValidationPassed => Len(queries) = (IF CanQuery THEN 1 ELSE 0)
    /\ ~ValidationPassed => queries = <<>>

\* ridekick_analyze returned after its one query and its one API call
C22_Witness ==
    /\ tool = "analyze"
    /\ pc = "returned"
    /\ Len(queries) = 1
    /\ Len(apiCalls) = 1
    /\ queries[1] = [project |-> "ridekick", limit |-> 200]

-----------------------------------------------------------------------------
(* Properties of two invocations at once                                   *)

RECURSIVE SpeakerMapOf(_, _, _)
\* the Map the speakers loop builds over the first n records, from empty
SpeakerMapOf(filter, records, n) ==
    IF n = 0 THEN <<>>
    ELSE ScanParticipants(SpeakerMapOf(filter, records, n - 1), filter, records[n], 1)

RECURSIVE PainPointCountsOf(_, _)
\* the Map the pain-points loop builds over the first n records, from empty
PainPointCountsOf(records, n) ==
    IF n = 0 THEN <<>>
    ELSE ScanPatterns(PainPointCountsOf(records, n - 1), records[n], 1)

\* what the invocation returns when it runs alone on its arguments and its
\* fetched records
ResultAlone(inv) ==
    IF inv.tool = "speakers"
    THEN SpeakersResult(inv.args.speaker,
                        SpeakerMapOf(inv.args.speaker, inv.sources, Len(inv.sources)))
    ELSE PainPointsResult(PainPointCountsOf(inv.sources, Len(inv.sources)),
                          LimitOf(inv.args), Len(inv.sources))

\* the invocation's Map holds what its own records put there, and its
\* result is the one of a run alone
AsWhenRunAlone(inv) ==
    /\ inv.pc \in {"scanning", "returned"} =>
          /\ inv.tool = "speakers" =>
                inv.speakerMap = SpeakerMapOf(inv.args.speaker, inv.sources, inv.idx)
          /\ inv.tool = "pain_points" =>
                inv.painPointCounts = PainPointCountsOf(inv.sources, inv.idx)
    /\ inv.pc = "returned" => inv.result = ResultAlone(inv)

\* a step leaves the records each invocation fetched as they were
FetchedRecordsKept ==
    IF parked' = parked
    THEN fetchStatus = "resolved" => sources' = sources
    ELSE parked'.sources = sources /\ sources' = parked.sources

\* every record handed to a handler is a record of the host, field by field
RecordsOfTheHost(inv) ==
    \A i \in 1..Len(inv.sources) : inv.sources[i] \in InterleavedCatalogue

\* C23: with two invocations, of the same tool or of different tools,
\* interleaved at their awaits in any order, each one's Map and result are
\* those of a run alone on its own arguments and fetched records, and no
\* step changes the records an invocation fetched.
C23_InvocationsIndependent ==
    /\ [](AsWhenRunAlone(Locals) /\ AsWhenRunAlone(parked))
    /\ [](RecordsOfTheHost(Locals) /\ RecordsOfTheHost(parked))
    /\ [][FetchedRecordsKept]_vars

\* an invocation asked for its records first and is still suspended at that
\* await; the other one asked second, for another project, scanned the
\* records both were given and returned
C23_Witness ==
    /\ Len(queries) = 2
    /\ queries[1].project # queries[2].project
    /\ parked.pc = "awaiting_query"
    /\ ProjectOf(parked.args) = queries[1].project
    /\ pc = "returned"
    /\ ProjectOf(args) = queries[2].project
    /\ tool = "speakers"
    /\ parked.tool = "pain_points"
    /\ Len(sources) = 2
    /\ result.profiles # <<>>

-----------------------------------------------------------------------------
(* Properties of context.propose                                           *)

\* the change types the declared permissions allow
AllowedTypes ==
    (IF permissions.proposeCreate THEN {"create_source"} ELSE {})
    \cup (IF permissions.proposeModify THEN {"update_source"} ELSE {})
    \cup (IF permissions.proposeDelete THEN {"delete_source"} ELSE {})

\* C24: in every state of every tool's invocation context.propose has been
\* called at most once; a call was made by ridekick_analyze only, with type
\* 'create_source' and project 'ridekick', which the declared permissions
\* allow, in an invocation with save_as_document true and after its one
\* completion-API request was answered with an ok response.
C24_ProposeOnlyCreateAfterOk ==
    /\ Len(proposals) <= 1
    /\ proposals # <<>> =>
          /\ tool = "analyze"
          /\ proposals[1].type = "create_source"
          /\ proposals[1].type \in AllowedTypes
          /\ proposals[1].project = "ridekick"
          /\ SaveAsDocument(args)
          /\ Len(apiCalls) = 1
          /\ response.kind = "ok"
          /\ pc \in {"awaiting_propose", "returned", "thrown"}
    /\ (tool # "analyze" \/ response.kind # "ok" \/ ~SaveAsDocument(args)) =>
          proposals = <<>>

\* ridekick_analyze returned ok after the one proposal it made
C24_Witness ==
    /\ tool = "analyze"
    /\ pc = "returned"
    /\ result.status = "ok"
    /\ response.kind = "ok"
    /\ args.save_as_document = Some(TRUE)
    /\ Len(proposals) = 1
    /\ proposals[1].type = "create_source"

-----------------------------------------------------------------------------
(* Properties of the gates of ridekick_analyze                             *)

\* the completion API is asked only by ridekick_analyze, with a question,
\* at least one fetched source and an API key
GatesPassed ==
    /\ tool = "analyze"
    /\ args.question # Absent
    /\ args.question[1] # ""
    /\ fetchStatus = "resolved"
    /\ Len(sources) > 0
    /\ context.apiKey

\* the first gate that fails decides the outcome, and no request is sent
GateFailed ==
    /\ (tool = "analyze" /\ pc = "returned" /\ Len(sources) = 0) =>
          /\ result.status = "error"
          /\ result.message =
                "No ridekick sources found. Add some user research data first."
          /\ apiCalls = <<>>
    /\ (tool = "analyze" /\ pc = "returned" /\ Len(sources) > 0 /\ ~context.apiKey) =>
          /\ result.status = "error"
          /\ result.message = "ANTHROPIC_API_KEY not set. Cannot perform AI analysis."
          /\ apiCalls = <<>>
    /\ (tool = "analyze" /\ RequiredMissing) => apiCalls = <<>> /\ queries = <<>>

\* the sources of the prompt are the first ones fetched, in order
PromptIsPrefix ==
    apiCalls # <<>> =>
        /\ Len(apiCalls[1].sources) <= Len(sources)
        /\ \A i \in 1..Len(apiCalls[1].sources) :
              apiCalls[1].sources[i] = sources[i].title

-----------------------------------------------------------------------------
(* Properties of the entries ridekick_pain_points returns                  *)

\* the titles of the scanned records that match pattern k
MatchingTitles(k) == {sources[i].title : i \in ScannedMatching(k)}

\* the scanned records that match pattern k and have a sentence to quote
Quoted(k) == {i \in ScannedMatching(k) : PainPointTable[sources[i]][k].quote # Absent}

\* the quotes are those of the first matching records that have one, in
\* the order of the records, one per record
QuotesInRecordOrder(k, quotes) ==
    \A q \in 1..Len(quotes) :
        \E i \in Quoted(k) :
            /\ Cardinality({j \in Quoted(k) : j < i}) = q - 1
            /\ quotes[q] = PainPointTable[sources[i]][k].quote[1]

\* C26: in every category returned, frequency is the number of matching
\* records and sources_count the number of distinct titles among them, so
\* 1 <= sources_count <= frequency, with sources_count < frequency exactly
\* when two matching records share a title; sample_sources holds the first
\* min(3, sources_count) distinct titles, and sample_quotes holds one quote
\* from each of the first matching records that have one, at most
\* min(3, frequency) of them.
C26_EntryCounts ==
    PainPointsReturned =>
        \A e \in 1..Len(result.pain_points) :
            LET p == result.pain_points[e]
                k == PatternOf(p.category)
            IN  /\ p.frequency = Cardinality(ScannedMatching(k))
                /\ p.sources_count = Cardinality(MatchingTitles(k))
                /\ 1 <= p.sources_count
                /\ p.sources_count <= p.frequency
                /\ p.sources_count < p.frequency <=>
                      \E i, j \in ScannedMatching(k) :
                          i # j /\ sources[i].title = sources[j].title
                /\ Len(p.sample_sources) = Min(3, p.sources_count)
                /\ \A a, b \in 1..Len(p.sample_sources) :
                      /\ p.sample_sources[a] \in MatchingTitles(k)
                      /\ a # b => p.sample_sources[a] # p.sample_sources[b]
                /\ Len(p.sample_quotes) <= Min(3, p.frequency)
                /\ Len(p.sample_quotes) = Min(3, Cardinality(Quoted(k)))
                /\ QuotesInRecordOrder(k, p.sample_quotes)

\* four matching records of three titles, each with a sentence to quote:
\* frequency 4, sources_count 3, three sample sources, three quotes
C26_Witness ==
    /\ PainPointsReturned
    /\ Len(sources) = 4
    /\ Cardinality(Quoted(PatternOf("Pricing Confusion"))) = 4
    /\ Len(result.pain_points) = 1
    /\ result.pain_points[1].category = "Pricing Confusion"
    /\ result.pain_points[1].frequency = 4
    /\ result.pain_points[1].sources_count = 3
    /\ Len(result.pain_points[1].sample_sources) = 3
    /\ Len(result.pain_points[1].sample_quotes) = 3

====
